---- MODULE Spec2Model ----
(***************************************************************************)
(* A model of event-listener-extended: addListener (src/unnamed/part_002)  *)
(* on top of the platform's EventTarget primitive (addEventListener,       *)
(* removeEventListener, dispatchEvent) and a small DOM tree.               *)
(*                                                                         *)
(* Strings that the code splits are sequences of symbols: an event name is *)
(* a sequence such as <<"click">>, the separator is the symbol " ".        *)
(***************************************************************************)
EXTENDS Integers, Sequences, FiniteSets, TLC

\* The number of addListener calls of one run of Spec and SpecDelegate.
MaxRequests == 2

\* The number of addListener calls of one run of SpecSolo.
MaxSolo == 1

Null == "null"

(***************************************************************************)
(* The DOM tree: the document of the test suite (setUpDOM), reduced to one *)
(* item per list and one text node.                                        *)
(*   window > document > html > container > list1 > item1 > text1          *)
(*                                          > list2 > item2                *)
(***************************************************************************)
Elements == {"html", "container", "list1", "item1", "list2", "item2"}

Nodes == Elements \cup {"document", "text1"}

EventTargets == Nodes \cup {"window"}

\* Node.parentNode
parentNode(n) ==
  CASE n = "text1" -> "item1"
    [] n = "item1" -> "list1"
    [] n = "item2" -> "list2"
    [] n = "list1" -> "container"
    [] n = "list2" -> "container"
    [] n = "container" -> "html"
    [] n = "html" -> "document"
    [] OTHER -> Null

\* The simple selectors (class, id) each element matches.
simpleSelectors(n) ==
  CASE n \in {"list1", "list2"} -> {".list"}
    [] n \in {"item1", "item2"} -> {".list-item"}
    [] n = "container" -> {"#container"}
    [] OTHER -> {}

\* A selector list is the set of its comma-separated simple selectors.
selectorList(selector) ==
  CASE selector = ".list-item" -> {".list-item"}
    [] selector = ".list" -> {".list"}
    [] selector = ".list, .list-item" -> {".list", ".list-item"}
    [] selector = "#container, .list-item" -> {"#container", ".list-item"}
    [] OTHER -> {}

\* matches-selector: false for a non-element, else Element.matches(selector).
matchesSelector(el, selector) ==
  /\ el \in Elements
  /\ simpleSelectors(el) \cap selectorList(selector) # {}

\* The elements in tree order.
documentOrder == <<"html", "container", "list1", "item1", "list2", "item2">>

\* document.querySelectorAll(selector): the NodeList of the matching elements
\* in tree order, with a length and the items 0 to length - 1.
querySelectorAll(selector) ==
  LET found == SelectSeq(documentOrder, LAMBDA n : matchesSelector(n, selector))
  IN  [kind |-> "nodelist", length |-> Len(found),
       item |-> [i \in 0..(Len(found) - 1) |-> found[i + 1]]]

\* JavaScript truthiness of an optional option value.
RECURSIVE contains(_, _)
\* Whether node n is a descendant of root.
contains(root, n) ==
  /\ n # Null
  /\ parentNode(n) # Null
  /\ parentNode(n) = root \/ contains(root, parentNode(n))

\* root.querySelectorAll(selector) on an element or the document: the
\* descendants of root that match, in tree order.
querySelectorAllIn(root, selector) ==
  SelectSeq(documentOrder,
            LAMBDA el : contains(root, el) /\ matchesSelector(el, selector))

Truthy(v) == v \notin {"undefined", "false", ""}

(***************************************************************************)
(* Strings and the inputs of addListener                                   *)
(***************************************************************************)
Space == " "

Tab == "\t"

Newline == "\n"

Whitespace == {Space, Tab, Newline}

RECURSIVE splitOnWhitespace(_)
\* A slip: as split(/\s/), every whitespace character separates.
splitOnWhitespace(s) ==
  IF \A i \in 1..Len(s) : s[i] \notin Whitespace
  THEN <<s>>
  ELSE LET i == CHOOSE k \in 1..Len(s) :
                  s[k] \in Whitespace /\ \A j \in 1..(k - 1) : s[j] \notin Whitespace
       IN  <<SubSeq(s, 1, i - 1)>> \o splitOnWhitespace(SubSeq(s, i + 1, Len(s)))

RECURSIVE split(_)
\* String.prototype.split(' '): the pieces between the separators, empty
\* pieces included.
split(s) ==
  IF \A i \in 1..Len(s) : s[i] # Space
  THEN <<s>>
  ELSE LET i == CHOOSE k \in 1..Len(s) :
                  s[k] = Space /\ \A j \in 1..(k - 1) : s[j] # Space
       IN  <<SubSeq(s, 1, i - 1)>> \o split(SubSeq(s, i + 1, Len(s)))

\* A slip: the empty pieces are not filtered out.
eventsOfKeepsEmpty(eventName) ==
  IF eventName.kind = "array"
  THEN eventName.value
  ELSE split(eventName.value)

\* options.eventName -> events
eventsOf(eventName) ==
  IF eventName.kind = "array"
  THEN eventName.value
  ELSE SelectSeq(split(eventName.value), LAMBDA e : e # <<>>)

\* A slip: only the first node of a NodeList is taken.
targetsOfFirstItem(target) ==
  CASE target.kind = "array" -> target.nodes
    [] target.kind = "nodelist" ->
         [i \in 1..(IF target.length > 0 THEN 1 ELSE 0) |-> target.item[i - 1]]
    [] OTHER -> <<target.node>>

\* options.target -> targets.  A NodeList has a length and the items 0 to
\* length - 1; Array.from makes the array of its items in that order.
targetsOf(target) ==
  CASE target.kind = "array" -> target.nodes
    [] target.kind = "nodelist" ->
         [i \in 1..target.length |-> target.item[i - 1]]
    [] OTHER -> <<target.node>>

\* A slip: passive is coerced like capture, so an unset passive becomes false.
getEventListenerArgCoercesPassive(optionsSupport, constructorOptions) ==
  IF ~optionsSupport.supportsOptions
  THEN [form |-> "boolean", once |-> "undefined",
        capture |-> Truthy(constructorOptions.capture),
        passive |-> "undefined"]
  ELSE [form |-> "object", once |-> "undefined",
        capture |-> Truthy(constructorOptions.capture),
        passive |-> IF optionsSupport.supportsPassive
                    THEN IF Truthy(constructorOptions.passive)
                         THEN "true" ELSE "false"
                    ELSE "undefined"]

\* A slip: the options object is built without the capture entry, which the
\* platform reads as false.
getEventListenerArgDropsCapture(optionsSupport, constructorOptions) ==
  IF ~optionsSupport.supportsOptions
  THEN [form |-> "boolean", once |-> "undefined",
        capture |-> Truthy(constructorOptions.capture),
        passive |-> "undefined"]
  ELSE [form |-> "object", once |-> "undefined",
        capture |-> FALSE,
        passive |-> IF constructorOptions.passive # "undefined"
                       /\ optionsSupport.supportsPassive
                    THEN constructorOptions.passive
                    ELSE "undefined"]

\* A slip: passive is forwarded whenever the caller gives it.
getEventListenerArgIgnoresPassiveSupport(optionsSupport, constructorOptions) ==
  IF ~optionsSupport.supportsOptions
  THEN [form |-> "boolean", once |-> "undefined",
        capture |-> Truthy(constructorOptions.capture),
        passive |-> "undefined"]
  ELSE [form |-> "object", once |-> "undefined",
        capture |-> Truthy(constructorOptions.capture),
        passive |-> constructorOptions.passive]

\* A slip: the options object is built also when the platform does not take
\* one.
getEventListenerArgAlwaysObject(optionsSupport, constructorOptions) ==
  [form |-> "object", once |-> "undefined",
   capture |-> Truthy(constructorOptions.capture),
   passive |-> IF constructorOptions.passive # "undefined"
                  /\ optionsSupport.supportsPassive
               THEN constructorOptions.passive
               ELSE "undefined"]

\* A slip: once is handed to the platform as well.
getEventListenerArgForwardsOnce(optionsSupport, constructorOptions) ==
  IF ~optionsSupport.supportsOptions
  THEN [form |-> "boolean", once |-> "undefined",
        capture |-> Truthy(constructorOptions.capture),
        passive |-> "undefined"]
  ELSE [form |-> "object",
        once |-> IF constructorOptions.once THEN "true" ELSE "undefined",
        capture |-> Truthy(constructorOptions.capture),
        passive |-> IF constructorOptions.passive # "undefined"
                       /\ optionsSupport.supportsPassive
                    THEN constructorOptions.passive
                    ELSE "undefined"]

\* The third argument of addEventListener / removeEventListener.  An absent
\* passive or once entry is "undefined".
getEventListenerArg(optionsSupport, constructorOptions) ==
  IF ~optionsSupport.supportsOptions
  THEN [form |-> "boolean", once |-> "undefined",
        capture |-> Truthy(constructorOptions.capture),
        passive |-> "undefined"]
  ELSE [form |-> "object", once |-> "undefined",
        capture |-> Truthy(constructorOptions.capture),
        passive |-> IF constructorOptions.passive # "undefined"
                       /\ optionsSupport.supportsPassive
                    THEN constructorOptions.passive
                    ELSE "undefined"]

(***************************************************************************)
(* The platform: the listener list of every event target                   *)
(***************************************************************************)
\* The listener the platform keeps for addEventListener(type, callback, arg).
listenerOf(type, callback, arg) ==
  [type |-> type, callback |-> callback, capture |-> arg.capture,
   passive |-> arg.passive, once |-> arg.once]

\* Two listeners are the same one when type, callback and capture agree.
sameListener(a, b) ==
  a.type = b.type /\ a.callback = b.callback /\ a.capture = b.capture

\* A slip: a listener is appended also when the same listener is there.
addEventListenerAlwaysAppends(list, target, type, callback, arg) ==
  [list EXCEPT ![target] = Append(@, listenerOf(type, callback, arg))]

\* EventTarget.addEventListener: appends unless the same listener is there.
addEventListener(list, target, type, callback, arg) ==
  IF \E i \in 1..Len(list[target]) :
       sameListener(list[target][i], listenerOf(type, callback, arg))
  THEN list
  ELSE [list EXCEPT ![target] = Append(@, listenerOf(type, callback, arg))]

\* A slip: the callback is not compared, any listener of the type is removed.
removeEventListenerAnyCallback(list, target, type, callback, arg) ==
  [list EXCEPT ![target] =
     SelectSeq(@, LAMBDA l : ~(l.type = type /\ l.capture = arg.capture))]

\* EventTarget.removeEventListener: removes the same listener, if there.
removeEventListener(list, target, type, callback, arg) ==
  [list EXCEPT ![target] =
     SelectSeq(@, LAMBDA l : ~sameListener(l, listenerOf(type, callback, arg)))]

(***************************************************************************)
(* addListener                                                             *)
(***************************************************************************)
\* A slip: one function object shared by all calls.
createCallbackShared(id, callback, delegateSelector) ==
  [id |-> 1, callback |-> callback, delegateSelector |-> delegateSelector]

\* The function createCallback returns: a new function object per call (id),
\* closed over callback, the unsubscribe container of request id, and
\* delegateSelector.
createCallback(id, callback, delegateSelector) ==
  [id |-> id, callback |-> callback, delegateSelector |-> delegateSelector]

\* What one addListener call keeps in its closure.
requestOf(id, optionsSupport, options) ==
  [events |-> eventsOf(options.eventName),
   targets |-> targetsOf(options.target),
   eventListenerArg |-> getEventListenerArg(optionsSupport, options),
   callback |-> createCallback(id, options.callback, options.delegateSelector),
   once |-> options.once,
   options |-> options]

\* Whether the events of a request are the caller's array itself: an array
\* is taken as it is (events = options.eventName), a string is split into a
\* new array.
eventsShared(eventName) == eventName.kind = "array"

\* A slip: an array of targets is taken as it is, like an array of names.
targetsSharedWhenArray(target) == target.kind = "array"

\* Whether the targets of a request are the caller's array itself: never, an
\* array is spread into a new one, a NodeList goes through Array.from and a
\* single target is put into a new array.
targetsShared(target) == FALSE

RECURSIVE removeEachWithoutArg(_, _, _, _)
\* A slip: removeEventListener is called without the third argument, which
\* the platform reads as capture false.
removeEachWithoutArg(list, req, t, e) ==
  IF t > Len(req.targets) THEN list
  ELSE IF e > Len(req.events) THEN removeEachWithoutArg(list, req, t + 1, 1)
  ELSE removeEachWithoutArg(
         removeEventListener(list, req.targets[t], req.events[e], req.callback,
                             [capture |-> FALSE, passive |-> "undefined",
                              once |-> "undefined"]),
         req, t, e + 1)

RECURSIVE removeEach(_, _, _, _)
\* targets.forEach(events.forEach(removeEventListener)), from pair (t, e) on.
removeEach(list, req, t, e) ==
  IF t > Len(req.targets) THEN list
  ELSE IF e > Len(req.events) THEN removeEach(list, req, t + 1, 1)
  ELSE removeEach(
         removeEventListener(list, req.targets[t], req.events[e], req.callback,
                             req.eventListenerArg),
         req, t, e + 1)

\* A slip: only the first event name is removed from each target.
unsubscribeFirstEvent(list, req) ==
  removeEach(list, [req EXCEPT !.events = SubSeq(@, 1, 1)], 1, 1)

\* A slip: the function toggles, a call that finds no listener of the request
\* subscribes its first pair again.
unsubscribeToggles(list, req) ==
  IF \E t \in EventTargets : \E i \in 1..Len(list[t]) :
       list[t][i].callback = req.callback
  THEN removeEach(list, req, 1, 1)
  ELSE IF req.targets = <<>> \/ req.events = <<>> THEN list
  ELSE addEventListener(list, req.targets[1], req.events[1], req.callback,
                        req.eventListenerArg)

\* The unsubscribe function addListener returns.
unsubscribe(list, req) == removeEach(list, req, 1, 1)

RECURSIVE addEachFirstTarget(_, _, _, _)
\* A slip: only the first target gets listeners.
addEachFirstTarget(list, req, t, e) ==
  IF t > 1 \/ t > Len(req.targets) THEN list
  ELSE IF e > Len(req.events) THEN addEachFirstTarget(list, req, t + 1, 1)
  ELSE addEachFirstTarget(
         addEventListener(list, req.targets[t], req.events[e], req.callback,
                          req.eventListenerArg),
         req, t, e + 1)

RECURSIVE addEach(_, _, _, _)
\* targets.forEach(events.forEach(addEventListener)), from pair (t, e) on.
addEach(list, req, t, e) ==
  IF t > Len(req.targets) THEN list
  ELSE IF e > Len(req.events) THEN addEach(list, req, t + 1, 1)
  ELSE addEach(
         addEventListener(list, req.targets[t], req.events[e], req.callback,
                          req.eventListenerArg),
         req, t, e + 1)

(***************************************************************************)
(* The class EnhancedEventListener.  An instance is a record of its        *)
(* fields; the nullable field targets is <<>> when null and <<array>>      *)
(* otherwise, the nullable field callback is Null or the callback.         *)
(***************************************************************************)
\* The arrow function property eventListenerCallback of instance id.
boundListener(id, delegateSelector) ==
  [id |-> id, callback |-> "eventListenerCallback",
   delegateSelector |-> delegateSelector]

\* new EnhancedEventListener(options), before addListeners().
EnhancedEventListener(id, optionsSupport, options) ==
  [targets |-> <<targetsOf(options.target)>>,
   events |-> split(options.eventName.value),
   delegateSelector |-> IF Truthy(options.delegateSelector)
                        THEN options.delegateSelector ELSE "false",
   callback |-> options.callback,
   eventListenerArg |-> getEventListenerArg(optionsSupport, options),
   eventListenerCallback |->
     boundListener(id, IF Truthy(options.delegateSelector)
                       THEN options.delegateSelector ELSE "false")]

\* this.targets.forEach(target => this.events.forEach(eventName =>
\*   target.addEventListener(eventName, this.eventListenerCallback, arg)))
addListeners(list, this) ==
  addEach(list, [targets |-> this.targets[1], events |-> this.events,
                 callback |-> this.eventListenerCallback,
                 eventListenerArg |-> this.eventListenerArg], 1, 1)

removeAllListeners(list, this) ==
  removeEach(list, [targets |-> this.targets[1], events |-> this.events,
                    callback |-> this.eventListenerCallback,
                    eventListenerArg |-> this.eventListenerArg], 1, 1)

\* listener.off(), on the state D of a dispatch.
off(D, id) ==
  LET this == D.requests[id]
  IN  IF this.targets = <<>> \/ this.callback = Null
      THEN [D EXCEPT !.reversed = @ \cup {id}]
      ELSE [D EXCEPT !.list = removeAllListeners(@, this),
                     !.requests[id].targets = <<>>,
                     !.requests[id].callback = Null,
                     !.requests[id].eventListenerArg =
                        [form |-> "boolean", once |-> "undefined",
                         capture |-> FALSE,
                         passive |-> "undefined"],
                     !.reversed = @ \cup {id}]

(***************************************************************************)
(* The class SimpleEventListener.  An instance is a record of its fields;  *)
(* the nullable fields target and callback are Null or their value.        *)
(***************************************************************************)
\* The arrow function property processListener of instance id.
boundProcessListener(id, delegateSelector) ==
  [id |-> id, callback |-> "processListener",
   delegateSelector |-> delegateSelector]

\* new SimpleEventListener(options), before the listeners are attached.
SimpleEventListener(id, optionsSupport, options) ==
  [target |-> options.target.node,
   events |-> split(options.eventName.value),
   delegateSelector |-> IF Truthy(options.delegateSelector)
                        THEN options.delegateSelector ELSE "false",
   callback |-> options.callback,
   eventListenerArg |-> getEventListenerArg(optionsSupport, options),
   processListener |->
     boundProcessListener(id, IF Truthy(options.delegateSelector)
                              THEN options.delegateSelector ELSE "false")]

\* for (i ...) this.target.addEventListener(this.events[i],
\*   this.processListener, this.eventListenerArg)
attachListeners(list, this) ==
  addEach(list, [targets |-> <<this.target>>, events |-> this.events,
                 callback |-> this.processListener,
                 eventListenerArg |-> this.eventListenerArg], 1, 1)

\* SimpleEventListener.off(), on the state D of a dispatch.
offSimple(D, id) ==
  LET this == D.requests[id]
  IN  IF this.target = Null \/ this.callback = Null
      THEN [D EXCEPT !.reversed = @ \cup {id}]
      ELSE [D EXCEPT !.list =
                       removeEach(@, [targets |-> <<this.target>>,
                                      events |-> this.events,
                                      callback |-> this.processListener,
                                      eventListenerArg |-> this.eventListenerArg],
                                  1, 1),
                     !.requests[id].target = Null,
                     !.requests[id].callback = Null,
                     !.requests[id].eventListenerArg =
                        [form |-> "boolean", once |-> "undefined",
                         capture |-> FALSE, passive |-> "undefined"],
                     !.reversed = @ \cup {id}]

(***************************************************************************)
(* The wrapped callback.  D is the state a dispatch runs on:               *)
(*   D.list       the listener list of every event target                  *)
(*   D.requests   the closure of every addListener call                    *)
(*   D.container  the requests whose unsubscribeContainer.unsubscribe is   *)
(*                set                                                      *)
(*   D.calls      the invocations of options.callback, in order            *)
(*   D.torn       the requests whose single-fire teardown ran, in order    *)
(*   D.reversed   the requests whose returned function has been called     *)
(*   D.visited    the nodes the delegated loop has tested, in order        *)
(*   D.raised     the error that is propagating, "none" without one        *)
(*   D.errors     the errors the platform has reported, in order           *)
(***************************************************************************)
RECURSIVE dispatchEvent(_, _, _, _)

\* A slip: the event source is passed as this.
userCallbackThisSource(D, cl, this, e) ==
  [D EXCEPT !.calls = Append(@, [req |-> cl.id, callback |-> cl.callback,
                                 this |-> e.target, target |-> e.target,
                                 currentTarget |-> e.currentTarget,
                                 type |-> e.type])]

\* callback.call(this, e).  The callback "f" returns at once; the callback
\* "redispatch" calls this.dispatchEvent(new Event(e.type, { bubbles: true }))
\* when it is the first invocation of its request in the running firing; the
\* callback "throws" raises an error; the callback "removes" calls the
\* function addListener returned for its request; the callback "off" calls
\* off() on its instance.
userCallback(D, cl, this, e) ==
  LET called == [D EXCEPT !.calls =
                   Append(@, [req |-> cl.id, callback |-> cl.callback,
                              this |-> this, target |-> e.target,
                              currentTarget |-> e.currentTarget,
                              type |-> e.type])]
  IN  CASE /\ cl.callback = "redispatch"
           /\ Cardinality({i \in 1..Len(called.calls) :
                             called.calls[i].req = cl.id}) = 1
             -> dispatchEvent(called, this, e.type, TRUE)
        [] cl.callback = "throws" -> [called EXCEPT !.raised = "Error"]
        [] cl.callback = "removes"
             -> [called EXCEPT !.list = unsubscribe(@, called.requests[cl.id]),
                               !.reversed = @ \cup {cl.id}]
        [] cl.callback = "off" -> off(called, cl.id)
        [] OTHER -> called

\* A slip: the single-fire teardown removes the first event name only.
singleFireFirstEvent(D, id) ==
  IF id \in D.container
  THEN [D EXCEPT !.list = unsubscribeFirstEvent(@, D.requests[id]),
                 !.container = @ \ {id}]
  ELSE D

\* A slip: the teardown runs but the latch is not deleted.
singleFireKeepsLatch(D, id) ==
  IF id \in D.container
  THEN [D EXCEPT !.list = unsubscribe(@, D.requests[id]),
                 !.torn = Append(@, id)]
  ELSE D

\* if (unsubscribe.unsubscribe) { unsubscribe.unsubscribe(); delete ... }
singleFire(D, id) ==
  IF id \in D.container
  THEN [D EXCEPT !.list = unsubscribe(@, D.requests[id]),
                 !.container = @ \ {id},
                 !.torn = Append(@, id)]
  ELSE D

RECURSIVE walkFirstMatch(_, _, _, _, _)
\* A slip: the loop ends at the first match.
walkFirstMatch(D, cl, e, currentNode, matchFound) ==
  IF currentNode = e.currentTarget \/ currentNode = Null
  THEN [state |-> D, matchFound |-> matchFound]
  ELSE IF matchesSelector(currentNode, cl.delegateSelector)
       THEN [state |-> userCallback(D, cl, currentNode, e), matchFound |-> TRUE]
       ELSE walkFirstMatch(D, cl, e, parentNode(currentNode), matchFound)

RECURSIVE walkSkipsSource(_, _, _, _, _)
\* A slip: the event source itself is not tested against the selector.
walkSkipsSource(D, cl, e, currentNode, matchFound) ==
  IF currentNode = e.currentTarget \/ currentNode = Null
  THEN [state |-> D, matchFound |-> matchFound]
  ELSE IF currentNode # e.target
          /\ matchesSelector(currentNode, cl.delegateSelector)
       THEN walkSkipsSource(userCallback(D, cl, currentNode, e), cl, e,
                            parentNode(currentNode), TRUE)
       ELSE walkSkipsSource(D, cl, e, parentNode(currentNode), matchFound)

RECURSIVE walkStopsEarly(_, _, _, _, _)
\* A slip: the loop ends at the child of the listener target.
walkStopsEarly(D, cl, e, currentNode, matchFound) ==
  IF \/ currentNode = e.currentTarget
     \/ currentNode = Null
     \/ parentNode(currentNode) = e.currentTarget
  THEN [state |-> D, matchFound |-> matchFound]
  ELSE IF matchesSelector(currentNode, cl.delegateSelector)
       THEN walkStopsEarly(userCallback(D, cl, currentNode, e), cl, e,
                           parentNode(currentNode), TRUE)
       ELSE walkStopsEarly(D, cl, e, parentNode(currentNode), matchFound)

RECURSIVE walkThisListenerTarget(_, _, _, _, _)
\* A slip: as in the undelegated case, the callback is called with the
\* attachment node as this.
walkThisListenerTarget(D, cl, e, currentNode, matchFound) ==
  IF currentNode = e.currentTarget \/ currentNode = Null
  THEN [state |-> D, matchFound |-> matchFound]
  ELSE IF matchesSelector(currentNode, cl.delegateSelector)
       THEN walkThisListenerTarget(userCallback(D, cl, e.currentTarget, e), cl, e,
                                   parentNode(currentNode), TRUE)
       ELSE walkThisListenerTarget(D, cl, e, parentNode(currentNode), matchFound)

RECURSIVE walkAncestorFirst(_, _, _, _, _)
\* A slip: the nodes above are visited before the callback is called for the
\* current node.
walkAncestorFirst(D, cl, e, currentNode, matchFound) ==
  IF currentNode = e.currentTarget \/ currentNode = Null
  THEN [state |-> D, matchFound |-> matchFound]
  ELSE LET above == walkAncestorFirst(D, cl, e, parentNode(currentNode),
                                      matchFound)
       IN  IF matchesSelector(currentNode, cl.delegateSelector)
           THEN [state |-> userCallback(above.state, cl, currentNode, e),
                 matchFound |-> TRUE]
           ELSE above

RECURSIVE walkIncludesListenerTarget(_, _, _, _, _)
\* A slip: the walk stops after the attachment node, not before it.
walkIncludesListenerTarget(D, cl, e, currentNode, matchFound) ==
  IF currentNode = Null
  THEN [state |-> D, matchFound |-> matchFound]
  ELSE LET next == IF currentNode = e.currentTarget
                   THEN Null ELSE parentNode(currentNode)
       IN  IF matchesSelector(currentNode, cl.delegateSelector)
           THEN walkIncludesListenerTarget(userCallback(D, cl, currentNode, e),
                                           cl, e, next, TRUE)
           ELSE walkIncludesListenerTarget(D, cl, e, next, matchFound)

RECURSIVE walkPastListenerTarget(_, _, _, _, _)
\* A slip: the loop ends at the null parent only and goes past the attachment
\* node.
walkPastListenerTarget(D, cl, e, currentNode, matchFound) ==
  IF currentNode = Null
  THEN [state |-> D, matchFound |-> matchFound]
  ELSE LET seen == [D EXCEPT !.visited =
                      Append(@, [req |-> cl.id, target |-> e.target,
                                 currentTarget |-> e.currentTarget,
                                 node |-> currentNode])]
       IN  IF currentNode # e.currentTarget
              /\ matchesSelector(currentNode, cl.delegateSelector)
           THEN LET called == userCallback(seen, cl, currentNode, e)
                IN  IF called.raised # "none"
                    THEN [state |-> called, matchFound |-> TRUE]
                    ELSE walkPastListenerTarget(called, cl, e,
                                                parentNode(currentNode), TRUE)
           ELSE walkPastListenerTarget(seen, cl, e, parentNode(currentNode),
                                       matchFound)

RECURSIVE walkWhileRegistered(_, _, _, _, _)
\* A slip: the loop also ends when the listener is no longer registered on the
\* attachment node.
walkWhileRegistered(D, cl, e, currentNode, matchFound) ==
  IF \/ currentNode = e.currentTarget
     \/ currentNode = Null
     \/ \A i \in 1..Len(D.list[e.currentTarget]) :
          D.list[e.currentTarget][i].callback # cl
  THEN [state |-> D, matchFound |-> matchFound]
  ELSE LET seen == [D EXCEPT !.visited =
                      Append(@, [req |-> cl.id, target |-> e.target,
                                 currentTarget |-> e.currentTarget,
                                 node |-> currentNode])]
       IN  IF matchesSelector(currentNode, cl.delegateSelector)
           THEN LET called == userCallback(seen, cl, currentNode, e)
                IN  IF called.raised # "none"
                    THEN [state |-> called, matchFound |-> TRUE]
                    ELSE walkWhileRegistered(called, cl, e,
                                             parentNode(currentNode), TRUE)
           ELSE walkWhileRegistered(seen, cl, e, parentNode(currentNode),
                                    matchFound)

RECURSIVE walk(_, _, _, _, _)
\* The while loop of the delegated case, from currentNode on.
\* An error the callback raises leaves the loop.
walk(D, cl, e, currentNode, matchFound) ==
  IF currentNode = e.currentTarget \/ currentNode = Null
  THEN [state |-> D, matchFound |-> matchFound]
  ELSE LET seen == [D EXCEPT !.visited =
                      Append(@, [req |-> cl.id, target |-> e.target,
                                 currentTarget |-> e.currentTarget,
                                 node |-> currentNode])]
       IN  IF matchesSelector(currentNode, cl.delegateSelector)
           THEN LET called == userCallback(seen, cl, currentNode, e)
                IN  IF called.raised # "none"
                    THEN [state |-> called, matchFound |-> TRUE]
                    ELSE walk(called, cl, e, parentNode(currentNode), TRUE)
           ELSE walk(seen, cl, e, parentNode(currentNode), matchFound)

\* A slip: the guard against an unset target or currentTarget is missing.
wrappedCallbackWithoutGuard(D, cl, e) ==
  IF ~Truthy(cl.delegateSelector)
  THEN singleFire(userCallback(D, cl, e.currentTarget, e), cl.id)
  ELSE IF e.target \in Elements
  THEN LET w == walk(D, cl, e, e.target, FALSE)
       IN  IF w.matchFound THEN singleFire(w.state, cl.id) ELSE w.state
  ELSE D

\* A slip: the walk starts also when the event source is not an element.
wrappedCallbackWithoutElementCheck(D, cl, e) ==
  IF e.target = Null \/ e.currentTarget = Null THEN D
  ELSE IF ~Truthy(cl.delegateSelector)
  THEN singleFire(userCallback(D, cl, e.currentTarget, e), cl.id)
  ELSE LET w == walk(D, cl, e, e.target, FALSE)
       IN  IF w.matchFound THEN singleFire(w.state, cl.id) ELSE w.state

\* A slip: as with the platform's own once option, the undelegated case
\* removes the listener that was invoked and no other pair.
wrappedCallbackRemovesOwnPair(D, cl, e) ==
  IF e.target = Null \/ e.currentTarget = Null THEN D
  ELSE IF ~Truthy(cl.delegateSelector)
  THEN LET called == userCallback(D, cl, e.currentTarget, e)
       IN  IF cl.id \in called.container
           THEN [called EXCEPT !.list =
                   removeEventListener(@, e.currentTarget, e.type, cl,
                                       called.requests[cl.id].eventListenerArg)]
           ELSE called
  ELSE IF e.target \in Elements
  THEN LET w == walk(D, cl, e, e.target, FALSE)
       IN  IF w.matchFound THEN singleFire(w.state, cl.id) ELSE w.state
  ELSE D

\* A slip: the delegated case tears down without looking at matchFound.
wrappedCallbackAlwaysTearsDown(D, cl, e) ==
  IF e.target = Null \/ e.currentTarget = Null THEN D
  ELSE IF ~Truthy(cl.delegateSelector)
  THEN singleFire(userCallback(D, cl, e.currentTarget, e), cl.id)
  ELSE IF e.target \in Elements
  THEN singleFire(walk(D, cl, e, e.target, FALSE).state, cl.id)
  ELSE D

\* A slip: the teardown runs in a finally block, so also when the callback
\* raised an error.
wrappedCallbackTearsDownOnError(D, cl, e) ==
  IF e.target = Null \/ e.currentTarget = Null THEN D
  ELSE IF ~Truthy(cl.delegateSelector)
  THEN singleFire(userCallback(D, cl, e.currentTarget, e), cl.id)
  ELSE IF e.target \in Elements
  THEN LET w == walk(D, cl, e, e.target, FALSE)
       IN  IF w.matchFound THEN singleFire(w.state, cl.id) ELSE w.state
  ELSE D

\* The body of the function createCallback returns, called with event e.  An
\* error the callback raises leaves the function where it was raised.
wrappedCallback(D, cl, e) ==
  IF e.target = Null \/ e.currentTarget = Null THEN D
  ELSE IF ~Truthy(cl.delegateSelector)
  THEN LET called == userCallback(D, cl, e.currentTarget, e)
       IN  IF called.raised # "none" THEN called
           ELSE singleFire(called, cl.id)
  ELSE IF e.target \in Elements
  THEN LET w == walk(D, cl, e, e.target, FALSE)
       IN  IF w.state.raised # "none" THEN w.state
           ELSE IF w.matchFound THEN singleFire(w.state, cl.id) ELSE w.state
  ELSE D

\* this.callback!.call(thisArg, e) in instance id: a TypeError when
\* this.callback is null.
callbackCall(D, id, thisArg, e) ==
  IF D.requests[id].callback = Null
  THEN [D EXCEPT !.raised = "TypeError"]
  ELSE userCallback(D, [id |-> id, callback |-> D.requests[id].callback,
                        delegateSelector |-> D.requests[id].delegateSelector],
                    thisArg, e)

RECURSIVE traverse(_, _, _, _)
\* The while loop of eventListenerCallback, from currentNode on.
traverse(D, id, e, currentNode) ==
  IF currentNode = e.currentTarget \/ currentNode = Null THEN D
  ELSE IF matchesSelector(currentNode, D.requests[id].delegateSelector)
       THEN LET called == callbackCall(D, id, currentNode, e)
            IN  IF called.raised # "none" THEN called
                ELSE traverse(called, id, e, parentNode(currentNode))
       ELSE traverse(D, id, e, parentNode(currentNode))

\* EnhancedEventListener.eventListenerCallback of instance id, called with e.
eventListenerCallback(D, id, e) ==
  IF e.target = Null \/ e.currentTarget = Null THEN D
  ELSE IF ~Truthy(D.requests[id].delegateSelector)
  THEN callbackCall(D, id, e.currentTarget, e)
  ELSE IF e.target \in Elements
  THEN traverse(D, id, e, e.target)
  ELSE D

RECURSIVE forEachElement(_, _, _, _, _)
\* NodeList.forEach(element => this.callback!.call(element, e)), from the
\* i-th element on.
forEachElement(D, id, e, elements, i) ==
  IF i > Len(elements) THEN D
  ELSE LET called == callbackCall(D, id, elements[i], e)
       IN  IF called.raised # "none" THEN called
           ELSE forEachElement(called, id, e, elements, i + 1)

\* A slip: as in the other listeners, the callback is invoked for the
\* matching nodes on the way from the event source to the target.
processListenerOnPath(D, id, e) ==
  IF Truthy(D.requests[id].delegateSelector)
  THEN IF e.target \in Elements THEN traverse(D, id, e, e.target) ELSE D
  ELSE callbackCall(D, id, D.requests[id].target, e)

\* SimpleEventListener.processListener of instance id, called with e.
processListener(D, id, e) ==
  IF Truthy(D.requests[id].delegateSelector)
  THEN IF D.requests[id].target = Null
       THEN [D EXCEPT !.raised = "TypeError"]
       ELSE forEachElement(D, id, e,
                           querySelectorAllIn(D.requests[id].target,
                                              D.requests[id].delegateSelector),
                           1)
  ELSE callbackCall(D, id, D.requests[id].target, e)

(***************************************************************************)
(* The platform: dispatchEvent                                             *)
(***************************************************************************)
\* A listener of another script (id 0): it is called with the current target.
nativeCallback == [id |-> 0, callback |-> "native", delegateSelector |-> "undefined"]

\* The platform calls the listener's callback; an error the callback raises
\* is reported and the dispatch goes on.
invokeListener(D, l, e) ==
  LET returned ==
        CASE l.callback.id = 0
               -> userCallback(D, l.callback, e.currentTarget, e)
          [] l.callback.id # 0 /\ l.callback.callback = "eventListenerCallback"
               -> eventListenerCallback(D, l.callback.id, e)
          [] l.callback.id # 0 /\ l.callback.callback = "processListener"
               -> processListener(D, l.callback.id, e)
          [] OTHER -> wrappedCallback(D, l.callback, e)
  IN  IF returned.raised # "none"
      THEN [returned EXCEPT !.errors = Append(@, returned.raised),
                            !.raised = "none"]
      ELSE returned

\* The parent of an event target on the event path.
getTheParent(n) ==
  CASE n = "window" -> Null
    [] n = "document" -> "window"
    [] OTHER -> parentNode(n)

RECURSIVE eventPath(_)
eventPath(n) == IF n = Null THEN <<>> ELSE <<n>> \o eventPath(getTheParent(n))

RECURSIVE invokeListeners(_, _, _, _, _)
\* The inner invoke of the platform on one event target: it runs over a copy
\* of the listener list taken when it starts and skips a listener removed
\* since; a listener registered with once true is removed before its callback
\* is called.
invokeListeners(D, snapshot, i, e, phase) ==
  IF i > Len(snapshot) THEN D
  ELSE LET l == snapshot[i]
           removed == \A j \in 1..Len(D.list[e.currentTarget]) :
                         D.list[e.currentTarget][j] # l
           skip == \/ removed
                   \/ l.type # e.type
                   \/ phase = "capturing" /\ ~l.capture
                   \/ phase = "bubbling" /\ l.capture
           taken == IF l.once = "true"
                    THEN [D EXCEPT !.list[e.currentTarget] =
                            SelectSeq(@, LAMBDA x : x # l)]
                    ELSE D
       IN  invokeListeners(IF skip THEN D ELSE invokeListener(taken, l, e),
                           snapshot, i + 1, e, phase)

invokeAt(D, node, e, phase) ==
  invokeListeners(D, D.list[node], 1, [e EXCEPT !.currentTarget = node], phase)

RECURSIVE capturePass(_, _, _, _)
\* From the outermost event target of the path down to the target.
capturePass(D, path, i, e) ==
  IF i < 1 THEN D
  ELSE capturePass(invokeAt(D, path[i], e, "capturing"), path, i - 1, e)

RECURSIVE bubblePass(_, _, _, _)
\* From the target up; beyond the target only when the event bubbles.
bubblePass(D, path, i, e) ==
  IF i > Len(path) THEN D
  ELSE IF i > 1 /\ ~e.bubbles THEN D
  ELSE bubblePass(invokeAt(D, path[i], e, "bubbling"), path, i + 1, e)

\* target.dispatchEvent(new Event(type, { bubbles }))
dispatchEvent(D, target, type, bubbles) ==
  LET e == [type |-> type, target |-> target, currentTarget |-> Null,
            bubbles |-> bubbles]
      path == eventPath(target)
  IN  bubblePass(capturePass(D, path, Len(path), e), path, 1, e)

(***************************************************************************)
(* State                                                                   *)
(***************************************************************************)
VARIABLES
  optionsSupport_,  \* the result of detectEventListener()
  listeners,        \* the platform's listener list of every event target
  requests,         \* the closures of the addListener calls made so far
  container,        \* the requests whose unsubscribeContainer.unsubscribe is set
  reversed,         \* the requests whose returned function has been called
  served,           \* the once requests whose callback has been invoked
  teardowns,        \* how often the single-fire teardown of each request ran
  calls,            \* the callback invocations of the last firing
  visited,          \* the nodes the delegated loops of the last firing tested
  errors,           \* the errors reported during the last firing
  last              \* the last operation, and what held before it

vars ==
  <<optionsSupport_, listeners, requests, container, reversed, served,
    teardowns, calls, visited, errors, last>>

\* The requests that have a callback invocation in cs.
invoked(cs) == {cs[i].req : i \in 1..Len(cs)}

NoOp ==
  [op |-> "none", req |-> 0, again |-> FALSE, target |-> Null, type |-> <<>>,
   bubbles |-> FALSE, container |-> {}, served |-> {}, reversed |-> {}]

\* The inputs of the runs.
Click == <<"click">>

Mousedown == <<"mousedown">>

EventTypes == {Click, Mousedown}

\* Requests without delegation: one or two targets (one an ancestor of the
\* other), one or two event names, with and without once.
PlainOptions ==
  [target : { [kind |-> "single", node |-> "list1"],
              [kind |-> "array", nodes |-> <<"container", "list1">>] },
   eventName : { [kind |-> "string", value |-> Click],
                 [kind |-> "string", value |-> Mousedown \o <<Space>> \o Click] },
   callback : {"f"}, capture : {"undefined"}, passive : {"undefined"},
   once : BOOLEAN, delegateSelector : {"undefined"}]

PlainOrigins == {"item1", "list1", "container"}

\* Requests on the container: without delegation, with a selector that matches
\* one node of a path, and with one that matches two.
DelegateOptions ==
  [target : { [kind |-> "single", node |-> "container"] },
   eventName : { [kind |-> "string", value |-> Click] },
   callback : {"f"}, capture : {"undefined"}, passive : {"undefined"},
   once : BOOLEAN,
   delegateSelector : {"undefined", ".list-item", ".list, .list-item"}]

DelegateOrigins == {"item1", "list1", "container"}

\* Requests of any shape.
SoloOptions ==
  [target : { [kind |-> "single", node |-> "list1"],
              [kind |-> "array", nodes |-> <<"list1", "list2">>],
              [kind |-> "array", nodes |-> <<"container", "list1">>] },
   eventName : { [kind |-> "string", value |-> Click],
                 [kind |-> "array", value |-> <<Click, Mousedown>>] },
   callback : {"f"}, capture : {"undefined"}, passive : {"undefined"},
   once : BOOLEAN,
   delegateSelector : {"undefined", ".list-item", ".list, .list-item"}]

SoloOrigins == {"item1", "list1", "container", "list2"}

Init ==
  /\ optionsSupport_ = [supportsOptions |-> TRUE, supportsPassive |-> TRUE]
  /\ listeners = [n \in EventTargets |->
                    IF n = "list1"
                    THEN <<listenerOf(Click, nativeCallback,
                                      [capture |-> FALSE, passive |-> "undefined",
                                       once |-> "undefined"])>>
                    ELSE <<>>]
  /\ requests = <<>>
  /\ container = {}
  /\ reversed = {}
  /\ served = {}
  /\ teardowns = <<>>
  /\ calls = <<>>
  /\ visited = <<>>
  /\ errors = <<>>
  /\ last = NoOp

\* const remove = addListener(options)
AddListener(options, max) ==
  /\ Len(requests) < max
  /\ \E id \in {Len(requests) + 1} :
       \E req \in {requestOf(id, optionsSupport_, options)} :
         /\ requests' = Append(requests, req)
         /\ container' = IF req.once THEN container \cup {id} ELSE container
         /\ listeners' = addEach(listeners, req, 1, 1)
         /\ last' = [NoOp EXCEPT !.op = "addListener", !.req = id]
  /\ teardowns' = Append(teardowns, 0)
  /\ calls' = <<>>
  /\ visited' = <<>>
  /\ errors' = <<>>
  /\ UNCHANGED <<optionsSupport_, reversed, served>>

\* remove(): the caller invokes the function addListener returned.
Unsubscribe(id) ==
  /\ id \in 1..Len(requests)
  /\ listeners' = unsubscribe(listeners, requests[id])
  /\ reversed' = reversed \cup {id}
  /\ last' = [NoOp EXCEPT !.op = "unsubscribe", !.req = id,
                          !.again = (id \in reversed)]
  /\ calls' = <<>>
  /\ visited' = <<>>
  /\ errors' = <<>>
  /\ UNCHANGED <<optionsSupport_, requests, container, served, teardowns>>

\* target.dispatchEvent(new Event(type, { bubbles }))
Fire(target, type, bubbles) ==
  \E D \in {dispatchEvent([list |-> listeners, requests |-> requests,
                           container |-> container, calls |-> <<>>,
                           torn |-> <<>>, reversed |-> reversed,
                           visited |-> <<>>, raised |-> "none",
                           errors |-> <<>>],
                          target, type, bubbles)} :
    /\ listeners' = D.list
    /\ container' = D.container
    /\ calls' = D.calls
    /\ visited' = D.visited
    /\ errors' = D.errors
    /\ reversed' = D.reversed
    /\ served' = served \cup {r \in invoked(D.calls) : r # 0 /\ requests[r].once}
    /\ teardowns' = [r \in 1..Len(requests) |->
                       teardowns[r]
                       + Cardinality({i \in 1..Len(D.torn) : D.torn[i] = r})]
    /\ last' = [NoOp EXCEPT !.op = "fire", !.target = target, !.type = type,
                            !.bubbles = bubbles, !.container = container,
                            !.served = served, !.reversed = reversed]
    /\ UNCHANGED <<optionsSupport_, requests>>

\* The wrapped callback of request id, still registered, is called with an
\* event whose target or currentTarget is unset.
Deliver(id, target, currentTarget, type) ==
  /\ id \in 1..Len(requests)
  /\ target = Null \/ currentTarget = Null
  /\ \E t \in EventTargets : \E i \in 1..Len(listeners[t]) :
       listeners[t][i].callback = requests[id].callback
  /\ \E D \in {wrappedCallback([list |-> listeners, requests |-> requests,
                                  container |-> container, calls |-> <<>>,
                                  torn |-> <<>>, reversed |-> reversed,
                                  visited |-> <<>>, raised |-> "none",
                                  errors |-> <<>>],
                                 requests[id].callback,
                                 [type |-> type, target |-> target,
                                  currentTarget |-> currentTarget,
                                  bubbles |-> TRUE])} :
       /\ listeners' = D.list
       /\ container' = D.container
       /\ calls' = D.calls
       /\ visited' = D.visited
       /\ errors' = IF D.raised = "none" THEN D.errors
                    ELSE Append(D.errors, D.raised)
       /\ served' = served \cup {r \in invoked(D.calls) : r # 0 /\ requests[r].once}
       /\ teardowns' = [r \in 1..Len(requests) |->
                          teardowns[r]
                          + Cardinality({i \in 1..Len(D.torn) : D.torn[i] = r})]
       /\ last' = [NoOp EXCEPT !.op = "deliver", !.req = id, !.target = target,
                               !.type = type, !.container = container,
                               !.served = served]
  /\ UNCHANGED <<optionsSupport_, requests, reversed>>

NextOver(inputs, max, origins, bubbling) ==
  \/ \E options \in inputs : AddListener(options, max)
  \/ \E id \in 1..max : Unsubscribe(id)
  \/ \E target \in origins, type \in EventTypes, bubbles \in bubbling :
       Fire(target, type, bubbles)

\* Two requests without delegation.
Next == NextOver(PlainOptions, MaxRequests, PlainOrigins, {TRUE})

Spec == Init /\ [][Next]_vars

\* Two requests on the container, with and without delegation.
NextDelegate == NextOver(DelegateOptions, MaxRequests, DelegateOrigins, BOOLEAN)

SpecDelegate == Init /\ [][NextDelegate]_vars

\* One request of any shape.
NextSolo == NextOver(SoloOptions, MaxSolo, SoloOrigins, {TRUE})

SpecSolo == Init /\ [][NextSolo]_vars

\* The forms of eventName and target: strings with single, repeated, leading
\* and trailing separators and the arrays of their names; an array of nodes
\* and the NodeList of the same nodes.
FormOptions ==
  [target : { [kind |-> "array", nodes |-> <<"list1", "list2">>],
              querySelectorAll(".list") },
   eventName : { [kind |-> "string", value |-> Mousedown \o <<Space>> \o Click],
                 [kind |-> "string",
                  value |-> Mousedown \o <<Space, Space>> \o Click],
                 [kind |-> "string", value |-> <<Space>> \o Click \o <<Space>>],
                 [kind |-> "array", value |-> <<Mousedown, Click>>],
                 [kind |-> "array", value |-> <<Click>>] },
   callback : {"f"}, capture : {"undefined"}, passive : {"undefined"},
   once : {FALSE}, delegateSelector : {"undefined"}]

FormOrigins == {"item1", "list2"}

\* Two requests that differ in the form of their inputs.
NextForms == NextOver(FormOptions, MaxRequests, FormOrigins, {TRUE})

SpecForms == Init /\ [][NextForms]_vars

\* Requests with once on the container: without delegation, with a selector
\* that matches one node of a path, and with one that matches two.
LatchOptions ==
  [target : { [kind |-> "single", node |-> "container"] },
   eventName : { [kind |-> "string", value |-> Click] },
   callback : {"f"}, capture : {"undefined"}, passive : {"undefined"},
   once : {TRUE},
   delegateSelector : {"undefined", ".list-item", ".list, .list-item"}]

LatchOrigins == {"item1", "list1", "container"}

\* Two requests with once.
NextLatch == NextOver(LatchOptions, MaxRequests, LatchOrigins, BOOLEAN)

SpecLatch == Init /\ [][NextLatch]_vars

\* Requests whose eventName string has a tab, a newline, a space, or a tab
\* and a space between two names.
WhitespaceOptions ==
  [target : { [kind |-> "single", node |-> "list1"],
              [kind |-> "array", nodes |-> <<"container", "list1">>] },
   eventName : { [kind |-> "string", value |-> Click \o <<Tab>> \o Mousedown],
                 [kind |-> "string", value |-> Click \o <<Newline>> \o Mousedown],
                 [kind |-> "string", value |-> Click \o <<Space>> \o Mousedown],
                 [kind |-> "string",
                  value |-> Click \o <<Tab, Space>> \o Mousedown] },
   callback : {"f"}, capture : {"undefined"}, passive : {"undefined"},
   once : BOOLEAN, delegateSelector : {"undefined"}]

WhitespaceOrigins == {"item1", "list1"}

\* One request with whitespace in its eventName.
NextWhitespace == NextOver(WhitespaceOptions, MaxSolo, WhitespaceOrigins, {TRUE})

SpecWhitespace == Init /\ [][NextWhitespace]_vars

\* One request on the container; besides the firings, events with an unset
\* target or currentTarget reach its wrapped callback.
NextUnset ==
  \/ NextOver(DelegateOptions, MaxSolo, DelegateOrigins, {TRUE})
  \/ \E id \in 1..MaxSolo, target \in {Null, "item1"},
        currentTarget \in {Null, "container"} :
       Deliver(id, target, currentTarget, Click)

SpecUnset == Init /\ [][NextUnset]_vars

\* Requests on the container, the document and the window, fired from a text
\* node, the document, the window and an element.
OriginOptions ==
  [target : { [kind |-> "single", node |-> "container"],
              [kind |-> "single", node |-> "document"],
              [kind |-> "single", node |-> "window"] },
   eventName : { [kind |-> "string", value |-> Click] },
   callback : {"f"}, capture : {"undefined"}, passive : {"undefined"},
   once : BOOLEAN,
   delegateSelector : {"undefined", ".list-item", "#container, .list-item"}]

OriginOrigins == {"text1", "document", "window", "item1"}

\* One request, origins that are elements and origins that are not.
NextOrigins == NextOver(OriginOptions, MaxSolo, OriginOrigins, {TRUE})

SpecOrigins == Init /\ [][NextOrigins]_vars

\* Undelegated requests whose callback returns at once or dispatches the
\* event again.
NestedOptions ==
  [target : { [kind |-> "single", node |-> "list1"],
              [kind |-> "array", nodes |-> <<"container", "list1">>] },
   eventName : { [kind |-> "string", value |-> Click],
                 [kind |-> "string", value |-> Mousedown \o <<Space>> \o Click] },
   callback : {"f", "redispatch"}, capture : {"undefined"},
   passive : {"undefined"}, once : BOOLEAN, delegateSelector : {"undefined"}]

NestedOrigins == {"item1", "list1"}

\* One request, with firings from inside its callback.
NextNested == NextOver(NestedOptions, MaxSolo, NestedOrigins, {TRUE})

SpecNested == Init /\ [][NextNested]_vars

\* Requests with empty inputs (an empty or all-separator eventName string, an
\* empty eventName array, an empty array or NodeList of targets) and with a
\* target or an event name given twice.
EdgeOptions ==
  [target : { [kind |-> "single", node |-> "list1"],
              [kind |-> "array", nodes |-> <<>>],
              querySelectorAll(".none"),
              [kind |-> "array", nodes |-> <<"list1", "list1">>] },
   eventName : { [kind |-> "string", value |-> <<>>],
                 [kind |-> "string", value |-> <<Space, Space>>],
                 [kind |-> "array", value |-> <<>>],
                 [kind |-> "string", value |-> Click],
                 [kind |-> "string", value |-> Click \o <<Space>> \o Click],
                 [kind |-> "array", value |-> <<Click, Click>>] },
   callback : {"f"}, capture : {"undefined"}, passive : {"undefined"},
   once : {FALSE}, delegateSelector : {"undefined"}]

EdgeOrigins == {"item1", "list1"}

\* One request with an empty or a repeated input.
NextEdge == NextOver(EdgeOptions, MaxSolo, EdgeOrigins, {TRUE})

SpecEdge == Init /\ [][NextEdge]_vars

\* What detectEventListener() can report: a platform that reads the passive
\* entry of an options object takes an options object.
SupportInputs ==
  { [supportsOptions |-> TRUE, supportsPassive |-> TRUE],
    [supportsOptions |-> TRUE, supportsPassive |-> FALSE],
    [supportsOptions |-> FALSE, supportsPassive |-> FALSE] }

\* Requests for two event names with capture and passive unset, true and
\* false.
PlatformOptions ==
  [target : { [kind |-> "single", node |-> "list1"] },
   eventName : { [kind |-> "string", value |-> Mousedown \o <<Space>> \o Click] },
   callback : {"f"}, capture : {"undefined", "true", "false"},
   passive : {"undefined", "true", "false"},
   once : BOOLEAN, delegateSelector : {"undefined"}]

PlatformOrigins == {"item1", "list1"}

\* As Init, on any platform.
InitPlatform ==
  /\ optionsSupport_ \in SupportInputs
  /\ listeners = [n \in EventTargets |->
                    IF n = "list1"
                    THEN <<listenerOf(Click, nativeCallback,
                                      [capture |-> FALSE, passive |-> "undefined",
                                       once |-> "undefined"])>>
                    ELSE <<>>]
  /\ requests = <<>>
  /\ container = {}
  /\ reversed = {}
  /\ served = {}
  /\ teardowns = <<>>
  /\ calls = <<>>
  /\ visited = <<>>
  /\ errors = <<>>
  /\ last = NoOp

\* One request, events that bubble and events that do not.
NextPlatform == NextOver(PlatformOptions, MaxSolo, PlatformOrigins, BOOLEAN)

SpecPlatform == InitPlatform /\ [][NextPlatform]_vars

\* The caller assigns names to the array it passed as eventName to request id
\* (it adds, removes or replaces names).
MutateEventName(id, names) ==
  /\ id \in 1..Len(requests)
  /\ requests[id].options.eventName.kind = "array"
  /\ names # requests[id].options.eventName.value
  /\ requests' =
       [requests EXCEPT
          ![id].options.eventName.value = names,
          ![id].events = IF eventsShared(requests[id].options.eventName)
                         THEN names ELSE @]
  /\ last' = [NoOp EXCEPT !.op = "mutate", !.req = id]
  /\ calls' = <<>>
  /\ visited' = <<>>
  /\ errors' = <<>>
  /\ UNCHANGED <<optionsSupport_, listeners, container, reversed, served,
                 teardowns>>

\* The caller assigns nodes to the array it passed as target to request id.
MutateTarget(id, nodes) ==
  /\ id \in 1..Len(requests)
  /\ requests[id].options.target.kind = "array"
  /\ nodes # requests[id].options.target.nodes
  /\ requests' =
       [requests EXCEPT
          ![id].options.target.nodes = nodes,
          ![id].targets = IF targetsShared(requests[id].options.target)
                          THEN nodes ELSE @]
  /\ last' = [NoOp EXCEPT !.op = "mutate", !.req = id]
  /\ calls' = <<>>
  /\ visited' = <<>>
  /\ errors' = <<>>
  /\ UNCHANGED <<optionsSupport_, listeners, container, reversed, served,
                 teardowns>>

\* Requests whose event names are an array the caller keeps.
EventNameOptions ==
  [target : { [kind |-> "single", node |-> "list1"],
              [kind |-> "array", nodes |-> <<"container", "list1">>] },
   eventName : { [kind |-> "array", value |-> <<Click>>],
                 [kind |-> "array", value |-> <<Click, Mousedown>>],
                 [kind |-> "string", value |-> Mousedown \o <<Space>> \o Click] },
   callback : {"f"}, capture : {"undefined"}, passive : {"undefined"},
   once : BOOLEAN, delegateSelector : {"undefined"}]

EventNameOrigins == {"item1", "container"}

\* What the caller makes of its array of names.
EventNameArrays == {<<Click>>, <<Mousedown>>, <<Click, Mousedown>>}

NextEventNames ==
  \/ NextOver(EventNameOptions, MaxSolo, EventNameOrigins, {TRUE})
  \/ \E id \in 1..MaxSolo, names \in EventNameArrays :
       MutateEventName(id, names)

\* One request, and a caller that changes its array of event names.
SpecEventNames == Init /\ [][NextEventNames]_vars

\* Requests whose targets are an array the caller keeps.
TargetOptions ==
  [target : { [kind |-> "array", nodes |-> <<"list1">>],
              [kind |-> "array", nodes |-> <<"container", "list1">>],
              [kind |-> "single", node |-> "list1"] },
   eventName : { [kind |-> "string", value |-> Click],
                 [kind |-> "array", value |-> <<Click, Mousedown>>] },
   callback : {"f"}, capture : {"undefined"}, passive : {"undefined"},
   once : BOOLEAN, delegateSelector : {"undefined"}]

TargetOrigins == {"item1", "container"}

\* What the caller makes of its array of targets.
TargetArrays ==
  {<<"list1">>, <<"container">>, <<"container", "list1">>,
   <<"container", "list1", "list2">>}

NextTargets ==
  \/ NextOver(TargetOptions, MaxSolo, TargetOrigins, {TRUE})
  \/ \E id \in 1..MaxSolo, nodes \in TargetArrays : MutateTarget(id, nodes)

\* One request, and a caller that changes its array of targets.
SpecTargets == Init /\ [][NextTargets]_vars

\* const listener = new EnhancedEventListener(options)
NewEnhanced(options, max) ==
  /\ Len(requests) < max
  /\ \E id \in {Len(requests) + 1} :
       \E this \in {EnhancedEventListener(id, optionsSupport_, options)} :
         /\ requests' = Append(requests, this)
         /\ listeners' = addListeners(listeners, this)
         /\ last' = [NoOp EXCEPT !.op = "new", !.req = id]
  /\ calls' = <<>>
  /\ visited' = <<>>
  /\ errors' = <<>>
  /\ UNCHANGED <<optionsSupport_, container, reversed, served, teardowns>>

\* listener.off(): the caller detaches instance id.
OffEnhanced(id) ==
  /\ id \in 1..Len(requests)
  /\ \E D \in {off([list |-> listeners, requests |-> requests,
                      reversed |-> reversed], id)} :
       /\ listeners' = D.list
       /\ requests' = D.requests
       /\ reversed' = D.reversed
  /\ last' = [NoOp EXCEPT !.op = "off", !.req = id,
                          !.again = (id \in reversed)]
  /\ calls' = <<>>
  /\ visited' = <<>>
  /\ errors' = <<>>
  /\ UNCHANGED <<optionsSupport_, container, served, teardowns>>

\* target.dispatchEvent(new Event(type, { bubbles })), with instances of a
\* class listening.
FireOnInstances(target, type, bubbles) ==
  \E D \in {dispatchEvent([list |-> listeners, requests |-> requests,
                           container |-> container, calls |-> <<>>,
                           torn |-> <<>>, reversed |-> reversed,
                           visited |-> <<>>, raised |-> "none",
                           errors |-> <<>>],
                          target, type, bubbles)} :
    /\ listeners' = D.list
    /\ requests' = D.requests
    /\ calls' = D.calls
    /\ visited' = D.visited
    /\ errors' = D.errors
    /\ reversed' = D.reversed
    /\ last' = [NoOp EXCEPT !.op = "fire", !.target = target, !.type = type,
                            !.bubbles = bubbles, !.reversed = reversed]
    /\ UNCHANGED <<optionsSupport_, container, served, teardowns>>

\* Instances on the container, or on the container and list1, whose callback
\* returns or calls off().
EnhancedOptions ==
  [target : { [kind |-> "single", node |-> "container"],
              [kind |-> "array", nodes |-> <<"container", "list1">>] },
   eventName : { [kind |-> "string", value |-> Click],
                 [kind |-> "string", value |-> Mousedown \o <<Space>> \o Click] },
   callback : {"f", "off"}, capture : {"undefined"}, passive : {"undefined"},
   delegateSelector : {"undefined", ".list-item", ".list, .list-item"}]

EnhancedOrigins == {"item1", "list1", "container"}

NextEnhanced ==
  \/ \E options \in EnhancedOptions : NewEnhanced(options, MaxSolo)
  \/ \E id \in 1..MaxSolo : OffEnhanced(id)
  \/ \E target \in EnhancedOrigins, type \in EventTypes :
       FireOnInstances(target, type, TRUE)

\* One instance of EnhancedEventListener.
SpecEnhanced == Init /\ [][NextEnhanced]_vars

\* const listener = new SimpleEventListener(options)
NewSimple(options, max) ==
  /\ Len(requests) < max
  /\ \E id \in {Len(requests) + 1} :
       \E this \in {SimpleEventListener(id, optionsSupport_, options)} :
         /\ requests' = Append(requests, this)
         /\ listeners' = attachListeners(listeners, this)
         /\ last' = [NoOp EXCEPT !.op = "new", !.req = id]
  /\ calls' = <<>>
  /\ visited' = <<>>
  /\ errors' = <<>>
  /\ UNCHANGED <<optionsSupport_, container, reversed, served, teardowns>>

\* listener.off(): the caller detaches instance id.
OffSimple(id) ==
  /\ id \in 1..Len(requests)
  /\ \E D \in {offSimple([list |-> listeners, requests |-> requests,
                            reversed |-> reversed], id)} :
       /\ listeners' = D.list
       /\ requests' = D.requests
       /\ reversed' = D.reversed
  /\ last' = [NoOp EXCEPT !.op = "off", !.req = id,
                          !.again = (id \in reversed)]
  /\ calls' = <<>>
  /\ visited' = <<>>
  /\ errors' = <<>>
  /\ UNCHANGED <<optionsSupport_, container, served, teardowns>>

\* Instances on an element or on the document, with and without delegation.
SimpleOptions ==
  [target : { [kind |-> "single", node |-> "container"],
              [kind |-> "single", node |-> "list1"],
              [kind |-> "single", node |-> "document"] },
   eventName : { [kind |-> "string", value |-> Click],
                 [kind |-> "string", value |-> Mousedown \o <<Space>> \o Click] },
   callback : {"f"}, capture : {"undefined"}, passive : {"undefined"},
   delegateSelector : {"undefined", ".list-item", ".list, .list-item"}]

SimpleOrigins == {"item1", "list1", "list2", "container"}

NextSimple ==
  \/ \E options \in SimpleOptions : NewSimple(options, MaxSolo)
  \/ \E id \in 1..MaxSolo : OffSimple(id)
  \/ \E target \in SimpleOrigins, type \in EventTypes :
       FireOnInstances(target, type, TRUE)

\* One instance of SimpleEventListener.
SpecSimple == Init /\ [][NextSimple]_vars

\* Requests on the container whose callback returns, raises an error, or calls
\* the function addListener returned for the request.
CallbackOptions ==
  [target : { [kind |-> "single", node |-> "container"] },
   eventName : { [kind |-> "string", value |-> Click],
                 [kind |-> "string", value |-> Mousedown \o <<Space>> \o Click] },
   callback : {"f", "throws", "removes"}, capture : {"undefined"},
   passive : {"undefined"}, once : BOOLEAN,
   delegateSelector : {"undefined", ".list-item", ".list, .list-item"}]

CallbackOrigins == {"item1", "list1", "container"}

\* One request, with callbacks that raise an error or remove the listener.
NextCallbacks == NextOver(CallbackOptions, MaxSolo, CallbackOrigins, {TRUE})

SpecCallbacks == Init /\ [][NextCallbacks]_vars

(***************************************************************************)
(* Vocabulary of the properties                                            *)
(***************************************************************************)
ids == 1..Len(requests)

range(seq) == {seq[i] : i \in 1..Len(seq)}

\* The invocations of request r's callback in the last firing.
callsOf(r) == {i \in 1..Len(calls) : calls[i].req = r}

\* The listeners the platform holds for request r: <<target, index>>.
registrations(r) ==
  UNION { {<<t, i>> : i \in {j \in 1..Len(listeners[t]) :
                               listeners[t][j].callback.id = r}} :
          t \in EventTargets }

isDelegated(r) == Truthy(requests[r].callback.delegateSelector)

\* The last operation was a firing of an event name of r that passes (on its
\* way up from the origin) the event target t.
passes(t) ==
  /\ last.op = "fire"
  /\ t \in range(eventPath(last.target))
  /\ last.bubbles \/ t = last.target

reaches(r) ==
  /\ last.type \in range(requests[r].events)
  /\ \E t \in range(requests[r].targets) : passes(t)

\* The targets of r the last firing passes.
reached(r) ==
  IF last.type \in range(requests[r].events)
  THEN {t \in range(requests[r].targets) : passes(t)}
  ELSE {}

(***************************************************************************)
(* C1: once the function addListener returned has been called, no firing   *)
(* invokes the callback of that request any more, whatever the request's   *)
(* targets, event names, delegateSelector and once are.                    *)
(***************************************************************************)
C1_NoCallAfterUnsubscribe ==
  last.op = "fire" => \A r \in reversed : callsOf(r) = {}

\* A firing that the request would have answered (it has no once, so only
\* the call of the returned function can have removed it).
C1_Witness ==
  /\ last.op = "fire"
  /\ \E r \in reversed :
       /\ ~requests[r].once
       /\ reaches(r)
       /\ Len(requests[r].targets) = 2
       /\ Len(requests[r].events) = 2
       /\ isDelegated(r) => last.target = "item1"

\* The nodes from origin up to, and without, attach that match the selector.
matching(origin, attach, selector) ==
  {n \in range(eventPath(origin)) :
     /\ attach \in range(eventPath(n))
     /\ attach # n
     /\ matchesSelector(n, selector)}

selectorOf(r) == requests[r].callback.delegateSelector

\* Request r had not invoked its callback before the last firing, or has no once.
fresh(r) == requests[r].once => r \notin last.served

(***************************************************************************)
(* C2: calling the returned function again changes nothing: the listener   *)
(* lists (of this and of every other request) and the once latches are as  *)
(* the first call left them.                                               *)
(***************************************************************************)
C2_UnsubscribeIdempotent ==
  [][(last'.op = "unsubscribe" /\ last'.again)
       => (listeners' = listeners /\ container' = container)]_vars

\* A second call while a later request with the same targets and event names
\* is registered.
C2_Witness ==
  /\ last.op = "unsubscribe"
  /\ last.again
  /\ \E r \in ids \ {last.req} :
       /\ registrations(r) # {}
       /\ requests[r].targets = requests[last.req].targets
       /\ requests[r].events = requests[last.req].events

(***************************************************************************)
(* C3: with once and no delegateSelector the callback is invoked in the    *)
(* first firing only, and once: that firing removes every (target, event   *)
(* name) pair of the request, so no later firing of another registered     *)
(* event name or on another registered target invokes it.                  *)
(***************************************************************************)
C3_OnceFirstFiringOnly ==
  \A r \in ids :
    (requests[r].once /\ ~isDelegated(r)) =>
      /\ r \in served => registrations(r) = {}
      /\ last.op = "fire" =>
           /\ Cardinality(callsOf(r)) <= 1
           /\ r \in last.served => callsOf(r) = {}

\* A later firing that passes a target of the request with one of its event
\* names, the request having two of each.
C3_Witness ==
  /\ last.op = "fire"
  /\ \E r \in ids \ reversed :
       /\ requests[r].once /\ ~isDelegated(r)
       /\ r \in last.served
       /\ reaches(r)
       /\ Len(requests[r].targets) = 2
       /\ Len(requests[r].events) = 2

(***************************************************************************)
(* C4: with once and a delegateSelector that matches k >= 2 nodes from the *)
(* origin up to (without) the attachment node, the first firing invokes    *)
(* the callback exactly k times, and every later firing zero times.        *)
(***************************************************************************)
C4_OnceDelegatedAllMatches ==
  last.op = "fire" =>
    \A r \in ids \ reversed :
      (requests[r].once /\ isDelegated(r) /\ Len(requests[r].targets) = 1) =>
        LET k == Cardinality(matching(last.target, requests[r].targets[1],
                                      selectorOf(r)))
        IN  /\ (r \notin last.served /\ reaches(r) /\ k >= 2)
                 => Cardinality(callsOf(r)) = k
            /\ r \in last.served => callsOf(r) = {}

\* The first firing, with two matching nodes.
C4_Witness ==
  /\ last.op = "fire"
  /\ \E r \in ids \ reversed :
       /\ requests[r].once /\ isDelegated(r)
       /\ r \notin last.served
       /\ Cardinality(callsOf(r)) = 2

(***************************************************************************)
(* C5: a delegated request on container C with selector S: a firing whose  *)
(* origin D matches S, no other node between D and C matching, invokes the *)
(* callback exactly once, with D as this.  A firing whose origin is C      *)
(* invokes a request on C without delegation once, a delegated one never.  *)
(***************************************************************************)
C5_DelegatedDispatch ==
  last.op = "fire" =>
    \A r \in ids \ reversed :
      (Len(requests[r].targets) = 1 /\ fresh(r) /\ reaches(r)) =>
        LET C == requests[r].targets[1]
        IN  /\ (isDelegated(r)
                /\ matching(last.target, C, selectorOf(r)) = {last.target})
                 => /\ Cardinality(callsOf(r)) = 1
                    /\ \A i \in callsOf(r) : calls[i].this = last.target
            /\ last.target = C =>
                 IF isDelegated(r)
                 THEN callsOf(r) = {}
                 ELSE /\ Cardinality(callsOf(r)) = 1
                      /\ \A i \in callsOf(r) : calls[i].this = C

\* A firing on C with a delegated and an undelegated request on C.
C5_Witness ==
  /\ last.op = "fire"
  /\ \E r1, r2 \in ids \ reversed :
       /\ isDelegated(r1) /\ ~isDelegated(r2)
       /\ fresh(r1) /\ fresh(r2)
       /\ reaches(r1) /\ reaches(r2)
       /\ last.target = requests[r1].targets[1]
       /\ last.target = requests[r2].targets[1]
       /\ callsOf(r1) = {}
       /\ callsOf(r2) # {}

(***************************************************************************)
(* C6: without once, one firing invokes the callback of a delegated        *)
(* request once for every node that matches the selector from the origin   *)
(* up to (without) the attachment node, and for no other node.             *)
(***************************************************************************)
C6_DelegatedOncePerMatch ==
  last.op = "fire" =>
    \A r \in ids \ reversed :
      (~requests[r].once /\ isDelegated(r) /\ Len(requests[r].targets) = 1) =>
        LET m == IF reaches(r)
                 THEN matching(last.target, requests[r].targets[1], selectorOf(r))
                 ELSE {}
        IN  /\ Cardinality(callsOf(r)) = Cardinality(m)
            /\ {calls[i].this : i \in callsOf(r)} = m

\* A firing with two matching nodes.
C6_Witness ==
  /\ last.op = "fire"
  /\ \E r \in ids \ reversed :
       /\ ~requests[r].once /\ isDelegated(r)
       /\ Cardinality(callsOf(r)) = 2

(***************************************************************************)
(* C7: an undelegated request with N (distinct) event names and M          *)
(* (distinct) targets has exactly N x M listeners when addListener         *)
(* returns, and a firing invokes the callback once for every registered    *)
(* (target, event name) pair it passes.                                    *)
(***************************************************************************)
C7_SubscriptionsAndCalls ==
  /\ (last.op = "addListener" /\ ~isDelegated(last.req)) =>
       Cardinality(registrations(last.req)) =
         Cardinality(range(requests[last.req].events))
           * Cardinality(range(requests[last.req].targets))
  /\ last.op = "fire" =>
       \A r \in ids \ reversed :
         (~isDelegated(r) /\ ~requests[r].once) =>
           /\ Cardinality(callsOf(r)) = Cardinality(reached(r))
           /\ {calls[i].currentTarget : i \in callsOf(r)} = reached(r)

\* A firing that passes both targets of a request with two event names.
C7_Witness ==
  /\ last.op = "fire"
  /\ \E r \in ids \ reversed :
       /\ ~isDelegated(r) /\ ~requests[r].once
       /\ Len(requests[r].events) = 2
       /\ Cardinality(registrations(r)) = 4
       /\ Cardinality(callsOf(r)) = 2

(***************************************************************************)
(* C8: two requests with the same callback function, target and event name *)
(* do not collide: while both are registered, a firing invokes the         *)
(* callback on that target twice, once for each request.                   *)
(***************************************************************************)
\* The requests registered (no once) for the last firing's event on t.
sharers(t, callback) ==
  {r \in ids \ reversed :
     /\ ~requests[r].once /\ ~isDelegated(r)
     /\ requests[r].callback.callback = callback
     /\ t \in range(requests[r].targets)
     /\ last.type \in range(requests[r].events)}

C8_SameCallbackNoCollision ==
  last.op = "fire" =>
    \A t \in EventTargets :
      passes(t) =>
        \A r1, r2 \in sharers(t, "f") :
          r1 # r2 =>
            /\ Cardinality({i \in 1..Len(calls) :
                              /\ calls[i].callback = "f"
                              /\ calls[i].currentTarget = t
                              /\ calls[i].req \in {r1, r2}}) = 2
            /\ \E i \in callsOf(r1) : calls[i].currentTarget = t
            /\ \E i \in callsOf(r2) : calls[i].currentTarget = t

\* A firing with two requests of the same options registered.
C8_Witness ==
  /\ last.op = "fire"
  /\ \E t \in EventTargets :
       /\ passes(t)
       /\ \E r1, r2 \in sharers(t, "f") :
            /\ r1 # r2
            /\ requests[r1].targets = requests[r2].targets
            /\ requests[r1].events = requests[r2].events

(***************************************************************************)
(* C9: calling the returned function of one request changes the listeners  *)
(* of that request only: the listeners of every other request (one with    *)
(* the same callback, target and event name included) and of other scripts *)
(* stay, in their order, and are invoked once per firing as before.        *)
(***************************************************************************)
othersAt(list, t, r) == SelectSeq(list[t], LAMBDA l : l.callback.id # r)

C9_UnsubscribeFrame ==
  /\ [][last'.op = "unsubscribe" =>
          \A t \in EventTargets :
            othersAt(listeners', t, last'.req) = othersAt(listeners, t, last'.req)]_vars
  /\ [](last.op = "fire" =>
          /\ Cardinality(callsOf(0)) = IF last.type = Click /\ passes("list1")
                                       THEN 1 ELSE 0
          /\ \A r \in ids \ reversed :
               (~isDelegated(r) /\ ~requests[r].once) =>
                 {calls[i].currentTarget : i \in callsOf(r)} = reached(r))

\* A firing after one of two requests with the same options was removed: the
\* other one and the listener of the other script are invoked.
C9_Witness ==
  /\ last.op = "fire"
  /\ callsOf(0) # {}
  /\ \E r1 \in reversed, r2 \in ids \ reversed :
       /\ requests[r1].targets = requests[r2].targets
       /\ requests[r1].events = requests[r2].events
       /\ requests[r1].once = requests[r2].once
       /\ callsOf(r2) # {}

(***************************************************************************)
(* C10: an undelegated callback is always invoked with the node its        *)
(* listener is attached to (the event's currentTarget) as this, also when  *)
(* the origin is a descendant, and the event it receives has the origin as *)
(* target.                                                                 *)
(***************************************************************************)
C10_UndelegatedThis ==
  \A i \in 1..Len(calls) :
    (calls[i].req # 0 /\ ~isDelegated(calls[i].req)) =>
      /\ calls[i].this = calls[i].currentTarget
      /\ calls[i].this \in range(requests[calls[i].req].targets)
      /\ calls[i].target = last.target
      /\ passes(calls[i].currentTarget)

\* An invocation for an event that came from a descendant.
C10_Witness ==
  \E i \in 1..Len(calls) :
    /\ calls[i].req # 0
    /\ ~isDelegated(calls[i].req)
    /\ calls[i].this # calls[i].target

(***************************************************************************)
(* C11: every invocation of a delegated callback has as this a node that   *)
(* matches the selector and lies on the way from the origin up to (without)*)
(* the attachment node, so it may be a proper ancestor of the origin; the  *)
(* event it receives has the origin as target and the attachment node (a   *)
(* target of the request) as currentTarget.                                *)
(***************************************************************************)
C11_DelegatedThis ==
  \A i \in 1..Len(calls) :
    (calls[i].req # 0 /\ isDelegated(calls[i].req)) =>
      /\ calls[i].this \in matching(last.target, calls[i].currentTarget,
                                    selectorOf(calls[i].req))
      /\ calls[i].target = last.target
      /\ calls[i].currentTarget \in range(requests[calls[i].req].targets)
      /\ passes(calls[i].currentTarget)

\* An invocation for a node strictly between the origin and the attachment
\* node.
C11_Witness ==
  \E i \in 1..Len(calls) :
    /\ calls[i].req # 0
    /\ isDelegated(calls[i].req)
    /\ calls[i].this # calls[i].target
    /\ calls[i].this # calls[i].currentTarget
    /\ calls[i].this \in range(eventPath(calls[i].target))

\* The positions of s where a name starts.
tokenStarts(s) ==
  {i \in 1..Len(s) : s[i] # Space /\ (i = 1 \/ s[i - 1] = Space)}

\* The non-empty names of s: its maximal runs without a separator, in order.
tokens(s) ==
  [n \in 1..Cardinality(tokenStarts(s)) |->
     LET i == CHOOSE k \in tokenStarts(s) :
                Cardinality({j \in tokenStarts(s) : j < k}) = n - 1
         j == CHOOSE k \in i..Len(s) :
                /\ \A m \in i..k : s[m] # Space
                /\ k = Len(s) \/ s[k + 1] = Space
     IN  SubSeq(s, i, j)]

\* The event names request r is registered for on target t, in order.
typesAt(r, t) ==
  LET own == SelectSeq(listeners[t], LAMBDA l : l.callback.id = r)
  IN  [i \in 1..Len(own) |-> own[i].type]

\* The invocations of r's callback in the last firing, without the request.
seenBy(r) ==
  LET own == SelectSeq(calls, LAMBDA c : c.req = r)
  IN  [i \in 1..Len(own) |->
         [this |-> own[i].this, target |-> own[i].target,
          currentTarget |-> own[i].currentTarget, type |-> own[i].type]]

nameForm(r) == requests[r].options.eventName

(***************************************************************************)
(* C12: an eventName string with single or repeated (also leading or       *)
(* trailing) space separators gives the same registrations, the same       *)
(* callback invocations in every firing and the same removals as the array *)
(* of its non-empty names; no listener is registered for an empty name.    *)
(***************************************************************************)
C12_StringLikeArray ==
  /\ \A t \in EventTargets : \A i \in 1..Len(listeners[t]) :
       listeners[t][i].type # <<>>
  /\ \A r \in ids :
       nameForm(r).kind = "string" =>
         \A t \in range(requests[r].targets) :
           typesAt(r, t) = IF r \in reversed THEN <<>>
                           ELSE tokens(nameForm(r).value)
  /\ \A r1, r2 \in ids :
       ( /\ nameForm(r1).kind = "string"
         /\ nameForm(r2).kind = "array"
         /\ nameForm(r2).value = tokens(nameForm(r1).value)
         /\ requests[r1].targets = requests[r2].targets
         /\ r1 \in reversed <=> r2 \in reversed )
       => /\ \A t \in EventTargets : typesAt(r1, t) = typesAt(r2, t)
          /\ seenBy(r1) = seenBy(r2)

\* A firing that invokes both a request with a repeated separator in its
\* eventName and a request with the array of the same names.
C12_Witness ==
  /\ last.op = "fire"
  /\ \E r1, r2 \in ids \ reversed :
       /\ nameForm(r1).kind = "string"
       /\ \E i \in 1..(Len(nameForm(r1).value) - 1) :
            nameForm(r1).value[i] = Space /\ nameForm(r1).value[i + 1] = Space
       /\ nameForm(r2).kind = "array"
       /\ nameForm(r2).value = tokens(nameForm(r1).value)
       /\ seenBy(r1) # <<>>
       /\ seenBy(r2) # <<>>

\* The listeners the platform holds for request r.
listenersOf(r) ==
  UNION { {listeners[t][i] : i \in {j \in 1..Len(listeners[t]) :
                                      listeners[t][j].callback.id = r}} :
          t \in EventTargets }

(***************************************************************************)
(* C13: on every platform, when the caller leaves passive unset the value  *)
(* handed to addEventListener has no passive entry (it is undefined, never *)
(* false); when the caller sets passive and the platform supports options  *)
(* and passive, the caller's value is the passive entry.                   *)
(***************************************************************************)
C13_PassiveForwarding ==
  \A r \in ids :
    LET o == requests[r].options
        arg == requests[r].eventListenerArg
    IN  /\ o.passive = "undefined" =>
             /\ arg.passive = "undefined"
             /\ \A l \in listenersOf(r) : l.passive = "undefined"
        /\ ( /\ o.passive # "undefined"
              /\ optionsSupport_.supportsOptions
              /\ optionsSupport_.supportsPassive ) =>
             /\ arg.form = "object"
             /\ arg.passive = o.passive
             /\ \A l \in listenersOf(r) : l.passive = o.passive

\* A request without passive registered on a platform with passive support.
C13_Witness ==
  /\ last.op = "addListener"
  /\ optionsSupport_.supportsPassive
  /\ requests[last.req].options.passive = "undefined"
  /\ listenersOf(last.req) # {}

(***************************************************************************)
(* C14: capture is handed to the platform as a boolean: false when the     *)
(* caller leaves it unset (or gives false), true when the caller gives     *)
(* true, in the options object and in the bare boolean alike; so a request *)
(* on an ancestor is invoked for an event that does not bubble exactly     *)
(* when capture is true.                                                   *)
(***************************************************************************)
C14_CaptureForwarding ==
  \A r \in ids :
    LET o == requests[r].options
        arg == requests[r].eventListenerArg
    IN  /\ arg.capture \in BOOLEAN
        /\ arg.capture = (o.capture = "true")
        /\ \A l \in listenersOf(r) : l.capture = (o.capture = "true")
        /\ ( /\ last.op = "fire"
              /\ r \notin reversed
              /\ fresh(r)
              /\ last.type \in range(requests[r].events)
              /\ ~last.bubbles
              /\ last.target \notin range(requests[r].targets)
              /\ \E t \in range(requests[r].targets) :
                   t \in range(eventPath(last.target)) ) =>
             (callsOf(r) # {} <=> o.capture = "true")

\* An event that does not bubble, from a descendant, invokes a request with
\* capture on a platform that takes the options object.
C14_Witness ==
  /\ last.op = "fire"
  /\ ~last.bubbles
  /\ optionsSupport_.supportsOptions
  /\ \E r \in ids \ reversed :
       /\ requests[r].options.capture = "true"
       /\ last.target \notin range(requests[r].targets)
       /\ callsOf(r) # {}

targetForm(r) == requests[r].options.target

(***************************************************************************)
(* C15: a target given as a NodeList behaves like the array of its nodes   *)
(* in collection order: every node of the collection gets one listener per *)
(* event name and no other node gets one, the firings invoke the callback  *)
(* alike, and the returned function removes all of them.                   *)
(***************************************************************************)
C15_NodeListLikeArray ==
  /\ \A r \in ids :
       targetForm(r).kind = "nodelist" =>
         /\ Len(requests[r].targets) = targetForm(r).length
         /\ \A i \in 0..(targetForm(r).length - 1) :
              /\ requests[r].targets[i + 1] = targetForm(r).item[i]
              /\ typesAt(r, targetForm(r).item[i])
                   = IF r \in reversed THEN <<>> ELSE requests[r].events
         /\ \A t \in EventTargets :
              typesAt(r, t) # <<>> =>
                \E i \in 0..(targetForm(r).length - 1) : t = targetForm(r).item[i]
  /\ \A r1, r2 \in ids :
       ( /\ targetForm(r1).kind = "nodelist"
         /\ targetForm(r2).kind = "array"
         /\ Len(targetForm(r2).nodes) = targetForm(r1).length
         /\ \A i \in 0..(targetForm(r1).length - 1) :
              targetForm(r2).nodes[i + 1] = targetForm(r1).item[i]
         /\ requests[r1].events = requests[r2].events
         /\ r1 \in reversed <=> r2 \in reversed )
       => /\ \A t \in EventTargets : typesAt(r1, t) = typesAt(r2, t)
          /\ seenBy(r1) = seenBy(r2)

\* A firing on the second node of the collection that invokes a request
\* given the NodeList and a request given the array.
C15_Witness ==
  /\ last.op = "fire"
  /\ \E r1, r2 \in ids \ reversed :
       /\ targetForm(r1).kind = "nodelist"
       /\ targetForm(r2).kind = "array"
       /\ targetForm(r1).length = 2
       /\ last.target = targetForm(r1).item[1]
       /\ seenBy(r1) # <<>>
       /\ seenBy(r2) # <<>>

\* Request r was given no event name or no target.
emptyInput(r) ==
  \/ nameForm(r).kind = "string" /\ tokens(nameForm(r).value) = <<>>
  \/ nameForm(r).kind = "array" /\ nameForm(r).value = <<>>
  \/ targetForm(r).kind = "array" /\ targetForm(r).nodes = <<>>
  \/ targetForm(r).kind = "nodelist" /\ targetForm(r).length = 0

(***************************************************************************)
(* C16: a request with an empty or all-separator eventName string, an      *)
(* empty eventName array or an empty target collection registers nothing   *)
(* (no listener of its own, none with an empty type), so no firing invokes *)
(* its callback, and calling the function it returned changes nothing.     *)
(***************************************************************************)
C16_EmptyInputs ==
  /\ [](\A r \in ids :
         emptyInput(r) =>
           /\ registrations(r) = {}
           /\ callsOf(r) = {}
           /\ \A t \in EventTargets : \A i \in 1..Len(listeners[t]) :
                listeners[t][i].type # <<>>)
  /\ [][(last'.op = "unsubscribe" /\ emptyInput(last'.req))
         => (listeners' = listeners /\ container' = container)]_vars

\* The first call of the function returned for an all-separator eventName.
C16_Witness ==
  /\ last.op = "unsubscribe"
  /\ ~last.again
  /\ nameForm(last.req).kind = "string"
  /\ nameForm(last.req).value # <<>>
  /\ emptyInput(last.req)

\* The occurrences <<i, j>> of a (target, event name) pair of request r that
\* the last firing passes.
occurrences(r) ==
  {p \in (1..Len(requests[r].targets)) \X (1..Len(requests[r].events)) :
     passes(requests[r].targets[p[1]]) /\ requests[r].events[p[2]] = last.type}

\* The (target, event name) pairs of request r that the last firing passes.
pairsPassed(r) ==
  {<<requests[r].targets[p[1]], requests[r].events[p[2]]>> : p \in occurrences(r)}

(***************************************************************************)
(* C17 as stated: a (target, event name) pair that occurs more than once   *)
(* in one request is registered once per occurrence, and a firing of the   *)
(* pair invokes the callback once per occurrence.                          *)
(***************************************************************************)
C17_OncePerOccurrence ==
  \A r \in ids \ reversed :
    /\ Cardinality(registrations(r))
         = Len(requests[r].targets) * Len(requests[r].events)
    /\ last.op = "fire" => Len(seenBy(r)) = Cardinality(occurrences(r))

(***************************************************************************)
(* C17, amended: a (target, event name) pair that occurs more than once in *)
(* one request is registered once (the platform merges the repeated        *)
(* addEventListener call, the wrapped callback being the same function),   *)
(* and a firing of the pair invokes the callback once, not once per        *)
(* occurrence.                                                             *)
(***************************************************************************)
C17_OncePerPair ==
  \A r \in ids \ reversed :
    /\ \A t \in EventTargets :
         /\ Len(typesAt(r, t)) = Cardinality(range(typesAt(r, t)))
         /\ range(typesAt(r, t)) = IF t \in range(requests[r].targets)
                                    THEN range(requests[r].events)
                                    ELSE {}
    /\ last.op = "fire" => Len(seenBy(r)) = Cardinality(pairsPassed(r))

\* A firing of a pair that occurs twice in the request: one invocation.
C17_Witness ==
  /\ last.op = "fire"
  /\ \E r \in ids \ reversed :
       /\ Cardinality(occurrences(r)) >= 2
       /\ Cardinality(pairsPassed(r)) = 1
       /\ Len(seenBy(r)) = 1

\* The number of listeners the listener lists list hold for request r.
held(list, r) ==
  Cardinality(UNION { {<<t, i>> : i \in {j \in 1..Len(list[t]) :
                                          list[t][j].callback.id = r}} :
                      t \in EventTargets })

(***************************************************************************)
(* C18: a request is Active (all its pairs registered) until the returned  *)
(* function is called or its single-fire teardown runs, and Detached (no   *)
(* pair registered) from then on: no step (a firing, a further call of the *)
(* returned function, the once latch) registers a pair of an existing      *)
(* request again.                                                          *)
(***************************************************************************)
C18_DetachedForGood ==
  /\ [](\A r \in ids :
         /\ (r \in reversed \/ teardowns[r] > 0) <=> registrations(r) = {}
         /\ registrations(r) # {} =>
              held(listeners, r)
                = Len(requests[r].targets) * Len(requests[r].events))
  /\ [][listeners' # listeners =>
          \A r \in ids : held(listeners', r) \in {0, held(listeners, r)}]_vars

\* A firing that passes the target of a request whose teardown has run and
\* whose returned function has been called.
C18_Witness ==
  /\ last.op = "fire"
  /\ \E r \in reversed :
       /\ teardowns[r] > 0
       /\ r \notin last.container
       /\ reaches(r)
       /\ registrations(r) = {}

matched(r) ==
  IF reaches(r)
  THEN UNION {matching(last.target, t, selectorOf(r)) : t \in reached(r)}
  ELSE {}

\* The last operation was a firing that reached the attachment node of the
\* once and delegated request r, its latch set, with no matching node.
noMatchFiring(r) ==
  /\ last.op = "fire"
  /\ r \notin reversed
  /\ requests[r].once /\ isDelegated(r)
  /\ r \in last.container
  /\ reaches(r)
  /\ matched(r) = {}

\* The same, with a matching node.
matchFiring(r) ==
  /\ last.op = "fire"
  /\ r \notin reversed
  /\ requests[r].once /\ isDelegated(r)
  /\ r \in last.container
  /\ reaches(r)
  /\ matched(r) # {}

(***************************************************************************)
(* C20: with once and a delegateSelector, a firing in which no node from   *)
(* the origin up to (without) the attachment node matches, the origin      *)
(* being the attachment node included, invokes nothing and tears nothing   *)
(* down: the latch stays set and all pairs stay registered; a firing with  *)
(* a match that follows still invokes the callback.                        *)
(***************************************************************************)
C20_NoMatchNoTeardown ==
  /\ [](\A r \in ids :
         /\ noMatchFiring(r) =>
              /\ callsOf(r) = {}
              /\ r \in container
              /\ teardowns[r] = 0
              /\ held(listeners, r)
                   = Len(requests[r].targets) * Len(requests[r].events)
         /\ matchFiring(r) => callsOf(r) # {})
  /\ [][\A r \in ids :
          ( /\ last.op = "fire" /\ last'.op = "fire"
            /\ r \in container /\ r \notin reversed
            /\ isDelegated(r)
            /\ callsOf(r) = {}
            /\ (callsOf(r) = {})'
            /\ noMatchFiring(r) ) => ~matchFiring(r)']_vars

\* A firing on the attachment node itself.
C20_Witness ==
  \E r \in ids :
    /\ noMatchFiring(r)
    /\ last.target \in range(requests[r].targets)
    /\ r \in container
    /\ registrations(r) # {}

(***************************************************************************)
(* C21: in one firing the invocations of a delegated callback for one      *)
(* attachment node come in path order from the origin upwards: a matching  *)
(* descendant is invoked before a matching ancestor.  The invocations of   *)
(* a firing are all made before the firing returns: every invocation       *)
(* logged after a firing belongs to that firing, none to an earlier one.   *)
(***************************************************************************)
C21_PathOrder ==
  /\ \A i, j \in 1..Len(calls) :
       ( /\ i < j
         /\ calls[i].req = calls[j].req
         /\ calls[i].req # 0
         /\ isDelegated(calls[i].req)
         /\ calls[i].currentTarget = calls[j].currentTarget ) =>
         /\ calls[j].this # calls[i].this
         /\ calls[j].this \in range(eventPath(calls[i].this))
  /\ \A i \in 1..Len(calls) :
       /\ last.op = "fire"
       /\ calls[i].target = last.target
       /\ calls[i].type = last.type

\* A firing with two invocations of a delegated callback.
C21_Witness ==
  /\ last.op = "fire"
  /\ \E i, j \in 1..Len(calls) :
       /\ i < j
       /\ calls[i].req = calls[j].req
       /\ isDelegated(calls[i].req)
       /\ calls[i].this = last.target
       /\ calls[j].this = parentNode(last.target)

(***************************************************************************)
(* C22: a delegated callback is never invoked with the attachment node as  *)
(* this, also when the attachment node matches the selector: the walk      *)
(* stops before it.                                                        *)
(***************************************************************************)
C22_AttachmentNeverThis ==
  \A i \in 1..Len(calls) :
    (calls[i].req # 0 /\ isDelegated(calls[i].req)) =>
      /\ calls[i].this # calls[i].currentTarget
      /\ calls[i].currentTarget \in range(eventPath(calls[i].this))

\* A firing from below an attachment node that matches the selector, with an
\* invocation for the node below.
C22_Witness ==
  /\ last.op = "fire"
  /\ \E r \in ids \ reversed :
       /\ isDelegated(r)
       /\ \E t \in reached(r) :
            /\ matchesSelector(t, selectorOf(r))
            /\ last.target # t
       /\ callsOf(r) # {}

(***************************************************************************)
(* C23: the returned function removes every (target, event name) pair with *)
(* the wrapped callback and the options value the pair was subscribed      *)
(* with: the value is derived once per request, every listener of the      *)
(* request carries that callback and that value, and after the call none   *)
(* of them is left, whatever capture and passive are and whatever the      *)
(* platform supports.                                                      *)
(***************************************************************************)
C23_SameCallbackAndOptions ==
  \A r \in ids :
    /\ requests[r].eventListenerArg
         = getEventListenerArg(optionsSupport_, requests[r].options)
    /\ \A l \in listenersOf(r) :
         /\ l.callback = requests[r].callback
         /\ l.capture = requests[r].eventListenerArg.capture
         /\ l.passive = requests[r].eventListenerArg.passive
    /\ IF r \in reversed \/ teardowns[r] > 0
       THEN registrations(r) = {}
       ELSE held(listeners, r)
              = Len(requests[r].targets) * Len(requests[r].events)

\* The returned function has been called for a request with capture.
C23_Witness ==
  /\ last.op = "unsubscribe"
  /\ ~last.again
  /\ requests[last.req].eventListenerArg.capture
  /\ Len(requests[last.req].events) = 2
  /\ registrations(last.req) = {}

(***************************************************************************)
(* C25: the options value has a passive entry only if the caller gave      *)
(* passive and the platform supports passive: when the caller gives        *)
(* passive (true or false) and the platform takes options but reports no   *)
(* passive support, the value carries capture only.                        *)
(***************************************************************************)
C25_PassiveNeedsSupport ==
  \A r \in ids :
    LET o == requests[r].options
        arg == requests[r].eventListenerArg
    IN  /\ arg.passive # "undefined" =>
             /\ o.passive # "undefined"
             /\ optionsSupport_.supportsPassive
        /\ ( /\ o.passive # "undefined"
              /\ optionsSupport_.supportsOptions
              /\ ~optionsSupport_.supportsPassive ) =>
             /\ arg.form = "object"
             /\ arg.capture = Truthy(o.capture)
             /\ arg.passive = "undefined"
             /\ \A l \in listenersOf(r) : l.passive = "undefined"

\* A request with passive false registered on a platform without passive
\* support.
C25_Witness ==
  /\ last.op = "addListener"
  /\ optionsSupport_.supportsOptions
  /\ ~optionsSupport_.supportsPassive
  /\ requests[last.req].options.passive = "false"
  /\ listenersOf(last.req) # {}

(***************************************************************************)
(* C26: on a platform that takes no options object the third argument of   *)
(* every addEventListener and removeEventListener call is the boolean      *)
(* capture (false when unset), and passive is forwarded for no value the   *)
(* caller gives.                                                           *)
(***************************************************************************)
C26_LegacyBoolean ==
  ~optionsSupport_.supportsOptions =>
    \A r \in ids :
      LET o == requests[r].options
          arg == requests[r].eventListenerArg
      IN  /\ arg.form = "boolean"
          /\ arg.capture = (o.capture = "true")
          /\ arg.passive = "undefined"
          /\ \A l \in listenersOf(r) :
               l.capture = (o.capture = "true") /\ l.passive = "undefined"
          /\ r \in reversed => registrations(r) = {}

\* The returned function has been called for a request with capture and
\* passive on a platform that takes no options object.
C26_Witness ==
  /\ ~optionsSupport_.supportsOptions
  /\ last.op = "unsubscribe"
  /\ ~last.again
  /\ requests[last.req].options.passive = "true"
  /\ requests[last.req].options.capture = "true"
  /\ registrations(last.req) = {}

\* The positions of s where a name starts, the symbols of seps separating.
startsBy(s, seps) ==
  {i \in 1..Len(s) : s[i] \notin seps /\ (i = 1 \/ s[i - 1] \in seps)}

\* The non-empty names of s: its maximal runs without a symbol of seps.
tokensBy(s, seps) ==
  [n \in 1..Cardinality(startsBy(s, seps)) |->
     LET i == CHOOSE k \in startsBy(s, seps) :
                Cardinality({j \in startsBy(s, seps) : j < k}) = n - 1
         j == CHOOSE k \in i..Len(s) :
                /\ \A m \in i..k : s[m] \notin seps
                /\ k = Len(s) \/ s[k + 1] \in seps
     IN  SubSeq(s, i, j)]

\* Request r has all its pairs registered.
active(r) == r \notin reversed /\ teardowns[r] = 0

(***************************************************************************)
(* C24 as stated: an eventName string is split on whitespace: a tab or a   *)
(* newline between two names separates them like a space, and the request  *)
(* is registered for each of the names.                                    *)
(***************************************************************************)
C24_SplitOnWhitespace ==
  \A r \in ids :
    (active(r) /\ nameForm(r).kind = "string") =>
      \A t \in range(requests[r].targets) :
        typesAt(r, t) = tokensBy(nameForm(r).value, Whitespace)

(***************************************************************************)
(* C24, amended: an eventName string is split on the space character only  *)
(* and empty pieces are discarded: a tab or a newline stays part of the    *)
(* name, so a request for "click<tab>mousedown" is registered for that one *)
(* name and is invoked neither by click nor by mousedown.                  *)
(***************************************************************************)
C24_SplitOnSpace ==
  \A r \in ids :
    (active(r) /\ nameForm(r).kind = "string") =>
      /\ \A t \in range(requests[r].targets) :
           typesAt(r, t) = tokensBy(nameForm(r).value, {Space})
      /\ last.op = "fire"
           => (callsOf(r) # {}
                 <=> /\ last.type \in range(tokensBy(nameForm(r).value, {Space}))
                     /\ reached(r) # {})

\* A click that passes the target of a request for "click<tab>mousedown".
C24_Witness ==
  /\ last.op = "fire"
  /\ last.type = Click
  /\ \E r \in ids :
       /\ active(r)
       /\ nameForm(r).value = Click \o <<Tab>> \o Mousedown
       /\ \E t \in range(requests[r].targets) : passes(t)
       /\ callsOf(r) = {}
       /\ \A t \in range(requests[r].targets) :
            typesAt(r, t) = <<Click \o <<Tab>> \o Mousedown>>

(***************************************************************************)
(* C27: when the wrapped callback is called with an event whose target or  *)
(* currentTarget is unset it returns at once: the callback is not invoked, *)
(* no listener is removed and, with once, the latch stays set and the      *)
(* teardown does not run.                                                  *)
(***************************************************************************)
C27_UnsetTargetAborts ==
  [][last'.op = "deliver" =>
       /\ calls' = <<>>
       /\ listeners' = listeners
       /\ container' = container
       /\ teardowns' = teardowns
       /\ served' = served]_vars

\* An event without currentTarget has reached the wrapped callback of an
\* undelegated request with once.
C27_Witness ==
  /\ last.op = "deliver"
  /\ last.target # Null
  /\ requests[last.req].once
  /\ ~isDelegated(last.req)
  /\ last.req \in container
  /\ registrations(last.req) # {}

(***************************************************************************)
(* C28: a firing whose origin is not an element (a text node, the          *)
(* document, the window) never invokes a delegated callback, also when an  *)
(* element above the origin matches the selector, and with once it leaves  *)
(* the latch set and all pairs registered.                                 *)
(***************************************************************************)
C28_NonElementOrigin ==
  (last.op = "fire" /\ last.target \notin Elements) =>
    \A r \in ids :
      isDelegated(r) =>
        /\ callsOf(r) = {}
        /\ r \in container <=> r \in last.container
        /\ r \in served <=> r \in last.served
        /\ r \in last.container => teardowns[r] = 0
        /\ (r \notin reversed /\ teardowns[r] = 0) =>
             held(listeners, r)
               = Len(requests[r].targets) * Len(requests[r].events)

\* A firing from the text node of an item that matches the selector, with a
\* delegated once request on the container.
C28_Witness ==
  /\ last.op = "fire"
  /\ last.target = "text1"
  /\ \E r \in ids \ reversed :
       /\ isDelegated(r)
       /\ requests[r].once
       /\ reaches(r)
       /\ matchesSelector(parentNode(last.target), selectorOf(r))
       /\ r \in container
       /\ registrations(r) # {}

(***************************************************************************)
(* C29: with once and no delegateSelector the callback is invoked at most  *)
(* once over the life of the request, also when the callback itself        *)
(* dispatches a registered event on a registered target: the nested firing *)
(* does not invoke it again.                                               *)
(***************************************************************************)
C29_OnceDespiteNestedFiring ==
  \A r \in ids :
    (requests[r].once /\ ~isDelegated(r)) =>
      /\ Cardinality(callsOf(r)) <= 1
      /\ r \in last.served => callsOf(r) = {}

(***************************************************************************)
(* C30: with once, no delegateSelector and two targets of which one is an  *)
(* ancestor of the other, a bubbling firing that reaches both invokes the  *)
(* callback exactly once, at the inner target: the teardown run there      *)
(* removes the listener of the outer target before the event reaches it.   *)
(***************************************************************************)
C30_OnceOnAncestorTargets ==
  (last.op = "fire" /\ last.bubbles) =>
    \A r \in ids \ reversed :
      ( /\ requests[r].once /\ ~isDelegated(r)
        /\ r \in last.container
        /\ Cardinality(reached(r)) = 2 ) =>
        /\ Cardinality(callsOf(r)) = 1
        /\ \A i \in callsOf(r) :
             \A t \in reached(r) : t \in range(eventPath(calls[i].currentTarget))
        /\ registrations(r) = {}
        /\ teardowns[r] = 1
        /\ r \notin container

\* A click on the inner target of a once request on container and list1.
C30_Witness ==
  /\ last.op = "fire"
  /\ last.bubbles
  /\ \E r \in ids \ reversed :
       /\ requests[r].once /\ ~isDelegated(r)
       /\ r \in last.container
       /\ reached(r) = {"container", "list1"}
       /\ \E i \in callsOf(r) : calls[i].currentTarget = "list1"

\* The last operation was a firing that calls the wrapped callback of request
\* r with a node to invoke the callback for.
answers(r) ==
  /\ last.op = "fire"
  /\ reaches(r)
  /\ isDelegated(r) => matched(r) # {}

throwing == {i \in 1..Len(calls) : calls[i].callback = "throws"}

(***************************************************************************)
(* C32: when the callback calls the function addListener returned during a *)
(* delegated firing with several matching nodes, no error is raised, the   *)
(* firing is not cut short (the callback is invoked for every matching     *)
(* node of the path), the pairs of the request are removed, and no later   *)
(* firing invokes the callback.                                            *)
(***************************************************************************)
C32_RemoveInsideCallback ==
  \A r \in ids :
    /\ requests[r].callback.callback = "removes"
    /\ isDelegated(r)
    /\ last.op = "fire"
    => /\ Len(errors) = Cardinality(throwing)
       /\ r \in last.reversed => callsOf(r) = {}
       /\ r \notin last.reversed /\ reaches(r)
            => /\ {calls[i].this : i \in callsOf(r)} = matched(r)
               /\ Cardinality(callsOf(r)) = Cardinality(matched(r))
               /\ matched(r) # {} => r \in reversed /\ registrations(r) = {}

\* A firing with two matching nodes whose first invocation removes the
\* listener.
C32_Witness ==
  \E r \in ids :
    /\ requests[r].callback.callback = "removes"
    /\ last.op = "fire"
    /\ r \notin last.reversed
    /\ r \in reversed
    /\ Cardinality(matched(r)) = 2
    /\ Cardinality(callsOf(r)) = 2
    /\ errors = <<>>

(***************************************************************************)
(* C33 as stated: in EnhancedEventListener, calling off() from inside the  *)
(* callback causes no error in the rest of the same dispatch, also when    *)
(* more than one node of the path matches the selector.                    *)
(***************************************************************************)
C33_OffInsideCallbackNoError ==
  last.op = "fire" => errors = <<>>

(***************************************************************************)
(* C34 as stated: the function addListener returned removes every pair     *)
(* that was registered, also when the caller has changed the array it      *)
(* passed as eventName since: once it has been called, the platform holds  *)
(* no listener of the request.                                             *)
(***************************************************************************)
C34_RemovesRegisteredNames ==
  \A r \in reversed : registrations(r) = {}

\* The listener of another script on list1.
nativeListeners ==
  {i \in 1..Len(listeners["list1"]) : listeners["list1"][i].callback.id = 0}

(***************************************************************************)
(* C35: the targets are copied at registration.  When the caller changes   *)
(* the array it passed as target, the request's targets stay what they     *)
(* were: until the function addListener returned is called (or the         *)
(* single-fire teardown runs) every pair stays registered, and afterwards  *)
(* no listener of the request is left on any target, while the listener of *)
(* another script on a target the caller added is untouched.               *)
(***************************************************************************)
C35_TargetsCopied ==
  /\ Cardinality(nativeListeners) = 1
  /\ \A r \in ids :
       /\ requests[r].options.target.kind = "array"
            => requests[r].targets \in {<<"list1">>, <<"container", "list1">>}
       /\ IF r \in reversed \/ teardowns[r] > 0
          THEN registrations(r) = {}
          ELSE held(listeners, r)
                 = Len(requests[r].targets) * Len(requests[r].events)

\* The returned function has just been called for a request whose array of
\* targets the caller had changed before.
C35_Witness ==
  /\ last.op = "unsubscribe"
  /\ ~last.again
  /\ \E r \in {last.req} :
       /\ teardowns[r] = 0
       /\ requests[r].options.target.kind = "array"
       /\ requests[r].options.target.nodes = <<"container", "list1", "list2">>
       /\ requests[r].targets = <<"container", "list1">>

(***************************************************************************)
(* C36: whatever the once flag of a request is, the value handed to        *)
(* addEventListener has no once entry and no listener of the request is    *)
(* registered with one.  Single-fire is the latch's work alone: the        *)
(* platform removes no listener on its own, so a request keeps its pair    *)
(* until its teardown or the returned function runs, and a firing on a     *)
(* once request invokes the callback for every matching node.              *)
(***************************************************************************)
C36_NoNativeOnce ==
  \A r \in ids :
    /\ requests[r].eventListenerArg.once = "undefined"
    /\ \A l \in listenersOf(r) : l.once = "undefined"
    /\ active(r) => held(listeners, r)
                      = Len(requests[r].targets) * Len(requests[r].events)
    /\ matchFiring(r) => Cardinality(callsOf(r)) = Cardinality(matched(r))

\* A firing on a once request with two matching nodes.
C36_Witness ==
  \E r \in ids :
    /\ requests[r].once
    /\ matchFiring(r)
    /\ Cardinality(callsOf(r)) = 2
    /\ teardowns[r] = 1

\* The nodes the delegated loop of request r tested in the last firing when
\* its wrapped callback was called on the event target t, in order.
visitsOf(r, t) ==
  SelectSeq(visited, LAMBDA v : v.req = r /\ v.currentTarget = t)

(***************************************************************************)
(* C37: in every firing on a delegated listener the walk over the          *)
(* ancestors terminates.  It starts at the origin, steps from a node to    *)
(* its parent, visits no node twice and not more nodes than the tree has,  *)
(* never visits the attachment node, and ends where the parent of the last *)
(* node is the attachment node or null (the root's parent, for a listener  *)
(* on the document or the window).                                         *)
(***************************************************************************)
C37_WalkTerminates ==
  last.op = "fire" =>
    \A r \in ids : \A t \in range(requests[r].targets) :
      \E V \in {visitsOf(r, t)} :
        /\ Len(V) <= Cardinality(Nodes)
        /\ \A i, j \in 1..Len(V) : V[i].node = V[j].node => i = j
        /\ \A i \in 1..Len(V) :
             /\ V[i].node # t
             /\ V[i].node = IF i = 1 THEN last.target
                            ELSE parentNode(V[i - 1].node)
        /\ V # <<>> => parentNode(V[Len(V)].node) \in {t, Null}
        /\ /\ isDelegated(r)
           /\ last.type \in range(requests[r].events)
           /\ passes(t)
           /\ last.target \in Elements \ {t}
           /\ r \notin last.reversed
           /\ requests[r].once => r \in last.container
           => V # <<>>

\* A firing from item1 on a delegated listener on the window: the walk goes
\* up to the document and ends at its null parent.
C37_Witness ==
  /\ last.op = "fire"
  /\ last.target = "item1"
  /\ \E r \in ids :
       /\ isDelegated(r)
       /\ requests[r].targets = <<"window">>
       /\ \E V \in {visitsOf(r, "window")} :
            /\ Len(V) = 5
            /\ V[5].node = "document"
            /\ parentNode(V[5].node) = Null

\* The descendants of event target t that match the selector.
matchingBelow(t, selector) ==
  {el \in Elements : /\ el # t
                     /\ t \in range(eventPath(el))
                     /\ matchesSelector(el, selector)}

(***************************************************************************)
(* C38: in SimpleEventListener a firing that reaches the target of a       *)
(* delegated listener invokes the callback once for every descendant of    *)
(* the target that matches the selector, with that descendant as this,     *)
(* whichever node the event came from: a firing whose origin is the target *)
(* itself, or a node that does not match, invokes it for all of them.      *)
(***************************************************************************)
C38_EveryMatchingDescendant ==
  last.op = "fire" =>
    \A r \in ids :
      /\ r \in last.reversed => callsOf(r) = {}
      /\ /\ r \notin last.reversed
         /\ Truthy(requests[r].delegateSelector)
         => IF last.type \in range(requests[r].events)
               /\ passes(requests[r].target)
            THEN /\ {calls[i].this : i \in callsOf(r)}
                      = matchingBelow(requests[r].target,
                                      requests[r].delegateSelector)
                 /\ Cardinality(callsOf(r))
                      = Cardinality(matchingBelow(requests[r].target,
                                                  requests[r].delegateSelector))
            ELSE callsOf(r) = {}

\* A firing whose origin is the target of the listener itself: the callback
\* is invoked for the four matching descendants of the container.
C38_Witness ==
  /\ last.op = "fire"
  /\ \E r \in ids :
       /\ requests[r].delegateSelector = ".list, .list-item"
       /\ requests[r].target = "container"
       /\ last.target = "container"
       /\ Cardinality(callsOf(r)) = 4
====
